---- MODULE Spec2Model ----
(***************************************************************************)
(* Refresh-and-correlation pipeline of the osiris dashboard                *)
(* (src/main.go, src/newrelic.go): single-flight refresh coordinator,      *)
(* entity fetcher, incident correlator, chunked render scheduler and       *)
(* cyclic search.                                                          *)
(*                                                                         *)
(* Go strings are modelled as sequences of one-character strings, so that  *)
(* strings.ToLower and strings.Contains are computed, not assumed.         *)
(* Error texts, which the program only compares with "", are TLA+ strings. *)
(***************************************************************************)
EXTENDS Integers, Sequences, FiniteSets, TLC

----------------------------------------------------------------------------
(* Bounds of the model *)

MaxCalls == 1        \* calls of refreshEntities in one behaviour of Spec
MaxRefreshCalls == 1 \* calls of refreshEntities in one behaviour of SpecRefresh
MaxFetchCalls == 2   \* calls of refreshEntities in one behaviour of SpecFetch
MaxSelectCalls == 2  \* calls of refreshEntities in one behaviour of SpecSelect, the first included
MaxSelectKeys == 1   \* key presses in one behaviour of SpecSelect
MaxKeys == 1         \* key presses handled by the UI loop in one behaviour
MaxSessions == 1     \* interactive sessions (s / r) in one behaviour
ShortKeyLen == 3     \* length of the short API key that is tried
FullKeyLen == 12     \* length of the long API key that is tried
MaxRenderN == 60     \* largest entity count of the render specification
MaxSearchN == 3      \* largest entity count of the search specification
MaxSearchKeys == 3   \* search keys (/ and n) in one behaviour of SpecSearch
MaxStatusCalls == 2  \* calls of refreshEntities in one behaviour of SpecStatus, the first included
MaxNest == 3         \* levels of nesting around a mapping in the answers of SpecExtract
MaxRestN == 2        \* largest entity count of SpecRest
MaxSurfaceCalls == 1 \* calls of refreshEntities in one behaviour of SpecSurface
MaxEmptyCalls == 2   \* calls of refreshEntities in one behaviour of SpecEmpty
MaxLockCalls == 2    \* calls of refreshEntities in one behaviour of SpecLock, the first included
MaxLockKeys == 1     \* keys (space, /, n, s and r) in one behaviour of SpecLock
MaxShownCalls == 2   \* calls of refreshEntities in one behaviour of SpecShown, the first included
MaxIdleCalls == 2    \* calls of refreshEntities in one behaviour of SpecIdle, the first included
MaxCycleCalls == 2   \* calls of refreshEntities in one behaviour of SpecCycles, the first included

(* Program constants *)

batchSize == 25      \* main.go:378
KeyPrefixLen == 10   \* newrelic.go:94, config.APIKey[:10]

----------------------------------------------------------------------------
(* strings *)

Upper == <<"A", "B", "D", "E", "H", "L", "O", "P", "R", "T", "W">>
Lower == <<"a", "b", "d", "e", "h", "l", "o", "p", "r", "t", "w">>

ToLowerChar(c) ==
    IF \E i \in 1..Len(Upper) : Upper[i] = c
    THEN Lower[CHOOSE i \in 1..Len(Upper) : Upper[i] = c]
    ELSE c

\* strings.ToLower
ToLower(s) == [i \in 1..Len(s) |-> ToLowerChar(s[i])]

\* strings.Contains(s, sub)
Contains(s, sub) ==
    \E k \in 0..(Len(s) - Len(sub)) : SubSeq(s, k + 1, k + Len(sub)) = sub

Digits == <<"0", "1", "2", "3", "4", "5", "6", "7", "8", "9">>

\* a string of n characters
KeyOfLen(n) == [i \in 1..n |-> "k"]

----------------------------------------------------------------------------
(* decoded JSON values (interface{} after json.Unmarshal) *)

JNull == [t |-> "null", s |-> <<>>, kids |-> <<>>]
JStr(s) == [t |-> "str", s |-> s, kids |-> <<>>]
JNum == [t |-> "num", s |-> <<>>, kids |-> <<>>]
KV(k, v) == [k |-> k, v |-> v]
JObj(kvs) == [t |-> "obj", s |-> <<>>, kids |-> kvs]
JArr(items) == [t |-> "arr", s |-> <<>>, kids |-> [i \in 1..Len(items) |-> KV("", items[i])]]

\* v[key] exists
Has(v, key) == v.t = "obj" /\ \E i \in 1..Len(v.kids) : v.kids[i].k = key
\* v[key]
Field(v, key) == v.kids[CHOOSE i \in 1..Len(v.kids) : v.kids[i].k = key].v
\* v[key].(string) succeeds
HasStr(v, key) == Has(v, key) /\ Field(v, key).t = "str"
\* v[key].(map[string]interface{}) succeeds
HasObj(v, key) == Has(v, key) /\ Field(v, key).t = "obj"
\* v[key].([]interface{}) succeeds
HasArr(v, key) == Has(v, key) /\ Field(v, key).t = "arr"
\* the elements of an array value
Items(v) == [i \in 1..Len(v.kids) |-> v.kids[i].v]

----------------------------------------------------------------------------
(* entities *)

Entity(name, guid, type, hasAlert, alertType, alertMessage, conn, os) ==
    [Name |-> name, GUID |-> guid, Type |-> type, HasAlert |-> hasAlert,
     AlertType |-> alertType, AlertMessage |-> alertMessage,
     ConnectionInfo |-> conn, OS |-> os]

sHOST == <<"H", "O", "S", "T">>
sLinux == <<"L", "i", "n", "u", "x">>

\* the entity list literal of addTestEntities
TestEntities ==
    << Entity(<<"w","e","b","-","0","1">>, <<>>, sHOST, FALSE, <<>>, <<>>,
              <<"1","0">>, sLinux),
       Entity(<<"a","p","i","-","0","2">>, <<>>, sHOST, TRUE,
              <<"C","P","U">>, <<"8","5">>, <<"1","1">>, sLinux),
       Entity(<<"d","b","-","0","1">>, <<>>, sHOST, FALSE, <<>>, <<>>,
              <<"1","2">>, sLinux),
       Entity(<<"c","a","c","h","e","-","0","1">>, <<>>, sHOST, TRUE,
              <<"M","e","m">>, <<"9","0">>, <<"1","3">>, sLinux),
       Entity(<<"m","o","n","i","t","o","r","-","0","1">>, <<>>, sHOST, FALSE,
              <<>>, <<>>, <<"1","4">>, sLinux) >>

\* addTestEntities: replaces the entities, keeps the error
addTestEntities(list) == [list EXCEPT !.Entities = TestEntities]

\* the entity parsed from one element of the entities array (newrelic.go:145-155)
ParseEntity(m) ==
    Entity(IF HasStr(m, "name") THEN Field(m, "name").s ELSE <<>>,
           IF HasStr(m, "guid") THEN Field(m, "guid").s ELSE <<>>,
           IF HasStr(m, "entityType") THEN Field(m, "entityType").s ELSE <<>>,
           FALSE, <<>>, <<>>, <<>>, <<>>)

RECURSIVE ParseEntities(_, _)
\* the loop of newrelic.go:143-162 from element i on
ParseEntities(arr, i) ==
    IF i > Len(arr) THEN <<>>
    ELSE LET e == ParseEntity(arr[i])
         IN  (IF arr[i].t = "obj" /\ e.Name # <<>> THEN <<e>> ELSE <<>>)
             \o ParseEntities(arr, i + 1)

\* newrelic.go:137-167: the entities found under data.actor.entitySearch.results
EntitiesOfResponse(nrResp) ==
    IF /\ HasObj(nrResp, "data")
       /\ HasObj(Field(nrResp, "data"), "actor")
       /\ HasObj(Field(Field(nrResp, "data"), "actor"), "entitySearch")
       /\ HasObj(Field(Field(Field(nrResp, "data"), "actor"), "entitySearch"), "results")
       /\ HasArr(Field(Field(Field(Field(nrResp, "data"), "actor"), "entitySearch"), "results"), "entities")
    THEN ParseEntities(Items(Field(Field(Field(Field(Field(nrResp, "data"), "actor"),
                                   "entitySearch"), "results"), "entities")), 1)
    ELSE <<>>

\* an outcome of the HTTP exchange: a transport error (timeout included),
\* an unreadable body, or a body that is well-formed JSON or not
Transport == [kind |-> "transport", valid |-> FALSE, json |-> JNull]
ReadErr == [kind |-> "read", valid |-> FALSE, json |-> JNull]
BadJSON == [kind |-> "body", valid |-> FALSE, json |-> JNull]
Body(j) == [kind |-> "body", valid |-> TRUE, json |-> j]

\* json.Unmarshal(body, &map[string]interface{}) fails
UnmarshalMapFails(o) == ~o.valid \/ o.json.t \notin {"obj", "null"}

\* FetchEntities stops at the credential check (newrelic.go:59-62)
MissingCredentials(cfg) == cfg.APIKey = <<>> \/ cfg.AccountID = <<>>

\* config.APIKey[:10] panics (newrelic.go:94)
FetchPanics(cfg) == ~MissingCredentials(cfg) /\ Len(cfg.APIKey) < KeyPrefixLen

\* FetchEntities before the network call: the EntityList returned at
\* newrelic.go:61
FetchNoCredentials ==
    addTestEntities([Entities |-> <<>>, Error |-> "API key or account ID not configured"])

\* FetchEntities from client.Do on (newrelic.go:100-169), for outcome o
FetchEntitiesAfter(o) ==
    LET list == [Entities |-> <<>>, Error |-> ""]
    IN  IF o.kind = "transport"
        THEN addTestEntities([list EXCEPT !.Error = "Error fetching from New Relic: "])
        ELSE IF o.kind = "read"
        THEN addTestEntities([list EXCEPT !.Error = "Error reading response: "])
        ELSE IF UnmarshalMapFails(o)
        THEN addTestEntities([list EXCEPT !.Error = "Error parsing response: "])
        ELSE IF HasArr(o.json, "errors") /\ Len(Field(o.json, "errors").kids) > 0
        THEN addTestEntities([list EXCEPT !.Error = "New Relic API error: "])
        ELSE [list EXCEPT !.Entities = EntitiesOfResponse(o.json)]

----------------------------------------------------------------------------
(* incident correlator: pure parts *)

\* the GUIDs of one element of an array of affected entities
\* (newrelic.go:315-322)
ItemGuids(item) ==
    IF item.t # "obj" THEN <<>>
    ELSE (IF HasStr(item, "entityGuid") THEN <<Field(item, "entityGuid").s>> ELSE <<>>)
         \o (IF HasStr(item, "guid") THEN <<Field(item, "guid").s>> ELSE <<>>)

RECURSIVE ArrGuids(_, _)
\* the loop of newrelic.go:314-323 from element i on
ArrGuids(arr, i) ==
    IF i > Len(arr) THEN <<>> ELSE ItemGuids(arr[i]) \o ArrGuids(arr, i + 1)

GuidKeys == <<"affectedEntities", "impactedEntities", "entities",
              "impacted_entity_list", "affected_entity_list">>

RECURSIVE KeyGuids(_, _)
\* the loop of newrelic.go:312-325 from key i on
KeyGuids(v, i) ==
    IF i > Len(GuidKeys) THEN <<>>
    ELSE (IF HasArr(v, GuidKeys[i]) THEN ArrGuids(Items(Field(v, GuidKeys[i])), 1) ELSE <<>>)
         \o KeyGuids(v, i + 1)

\* the guids collected for a mapping (newrelic.go:302-325)
GuidsOf(v) ==
    (IF HasStr(v, "entityGuid") THEN <<Field(v, "entityGuid").s>> ELSE <<>>)
    \o (IF HasStr(v, "guid") THEN <<Field(v, "guid").s>> ELSE <<>>)
    \o KeyGuids(v, 1)

OwnIncident_m(v) ==
    LET title == IF HasStr(v, "title") THEN Field(v, "title").s ELSE <<>>
        desc == IF HasStr(v, "description") THEN Field(v, "description").s ELSE <<>>
    IN  IF title # <<>> /\ Len(GuidsOf(v)) > 0
        THEN << [Title |-> title, Description |-> desc, GUIDs |-> GuidsOf(v)] >>
        ELSE <<>>

\* the candidate a mapping contributes itself (newrelic.go:293-331)
OwnIncident(v) ==
    LET title == IF HasStr(v, "title") THEN Field(v, "title").s ELSE <<>>
        desc == IF HasStr(v, "description") THEN Field(v, "description").s ELSE <<>>
    IN  IF (title # <<>> \/ desc # <<>>) /\ Len(GuidsOf(v)) > 0
        THEN << [Title |-> title, Description |-> desc, GUIDs |-> GuidsOf(v)] >>
        ELSE <<>>

RECURSIVE walk(_), WalkKids(_, _), WalkItems(_, _)
\* walk (newrelic.go:289-342): the sequences of candidates a walk of node can
\* append to found; the children of a mapping are ranged over in any order
\* (Go's map iteration order), the items of a sequence in order
walk(node) ==
    IF node.t = "obj"
    THEN {OwnIncident(node) \o rest : rest \in WalkKids(node.kids, 1..Len(node.kids))}
    ELSE IF node.t = "arr" THEN WalkItems(node.kids, 1)
    ELSE {<<>>}

\* the children with index in todo, in any order
WalkKids(kids, todo) ==
    IF todo = {} THEN {<<>>}
    ELSE UNION { {a \o b : a \in walk(kids[i].v), b \in WalkKids(kids, todo \ {i})} : i \in todo }

\* the items from index i on, in order
WalkItems(kids, i) ==
    IF i > Len(kids) THEN {<<>>}
    ELSE {a \o b : a \in walk(kids[i].v), b \in WalkItems(kids, i + 1)}

\* extractIncidentsGeneric: the possible values of found for a response
extractIncidentsGeneric(o) ==
    IF ~o.valid THEN {<<>>} ELSE walk(o.json)

\* the assignments of a match to one entity (newrelic.go:255-259, 439-443)
MarkAlert(e, title, detail) ==
    [e EXCEPT !.HasAlert = TRUE,
              !.AlertType = IF title # <<>> THEN title ELSE @,
              !.AlertMessage = detail]

RECURSIVE MatchGuids(_, _, _, _)
\* the loops of newrelic.go:252-264 for incident inc, from guid g on: the
\* heap after them; ents is the sequence of entity references of the list
MatchGuids(h, ents, inc, g) ==
    IF g > Len(inc.GUIDs) THEN h
    ELSE MatchGuids([o \in DOMAIN h |->
                        IF (\E i \in 1..Len(ents) : ents[i] = o) /\ h[o].GUID = inc.GUIDs[g]
                        THEN MarkAlert(h[o], inc.Title, inc.Description)
                        ELSE h[o]],
                    ents, inc, g + 1)

RECURSIVE MatchIncidents(_, _, _, _)
\* the loop of newrelic.go:251-265 from incident i on
MatchIncidents(h, ents, incidents, i) ==
    IF i > Len(incidents) THEN h
    ELSE MatchIncidents(MatchGuids(h, ents, incidents[i], 1), ents, incidents, i + 1)

RECURSIVE TargetsOf(_, _)
\* the names of the targets array from element i on (newrelic.go:410-416)
TargetsOf(arr, i) ==
    IF i > Len(arr) THEN <<>>
    ELSE (IF HasStr(arr[i], "name") THEN <<Field(arr[i], "name").s>> ELSE <<>>)
         \o TargetsOf(arr, i + 1)

\* targetNames of one violation (newrelic.go:399-433)
TargetNames(vmap) ==
    (IF HasArr(vmap, "targets") THEN TargetsOf(Items(Field(vmap, "targets")), 1) ELSE <<>>)
    \o (IF HasObj(vmap, "links") /\ HasStr(Field(vmap, "links"), "entity")
        THEN <<Field(Field(vmap, "links"), "entity").s>> ELSE <<>>)
    \o (IF HasStr(vmap, "entity_name") THEN <<Field(vmap, "entity_name").s>> ELSE <<>>)
    \o (IF HasObj(vmap, "entity") /\ HasStr(Field(vmap, "entity"), "name")
        THEN <<Field(Field(vmap, "entity"), "name").s>> ELSE <<>>)

NameMatches_m(name, tn) == Contains(ToLower(name), ToLower(tn))

\* the condition of newrelic.go:438
NameMatches(name, tn) ==
    \/ Contains(ToLower(name), ToLower(tn))
    \/ Contains(ToLower(tn), ToLower(name))

RECURSIVE MatchTargets(_, _, _, _, _, _)
\* the loops of newrelic.go:436-448 from target name t on
MatchTargets(h, ents, names, title, details, t) ==
    IF t > Len(names) THEN h
    ELSE MatchTargets([o \in DOMAIN h |->
                          IF (\E i \in 1..Len(ents) : ents[i] = o) /\ NameMatches(h[o].Name, names[t])
                          THEN MarkAlert(h[o], title, details)
                          ELSE h[o]],
                      ents, names, title, details, t + 1)

RECURSIVE MatchViolations(_, _, _, _)
\* the loop of newrelic.go:395-450 from violation i on
MatchViolations(h, ents, violations, i) ==
    IF i > Len(violations) THEN h
    ELSE LET vmap == violations[i]
             title == IF HasStr(vmap, "condition_name") THEN Field(vmap, "condition_name").s ELSE <<>>
             details == IF HasStr(vmap, "details") THEN Field(vmap, "details").s ELSE <<>>
         IN  MatchViolations(
                 IF vmap.t = "obj"
                 THEN MatchTargets(h, ents, TargetNames(vmap), title, details, 1)
                 ELSE h,
                 ents, violations, i + 1)

\* fetchViolationsREST from client.Do on (newrelic.go:372-451): the heap after it
ViolationsApplied(h, ents, o) ==
    IF o.kind # "body" \/ UnmarshalMapFails(o) THEN h
    ELSE IF HasArr(o.json, "violations")
    THEN MatchViolations(h, ents, Items(Field(o.json, "violations")), 1)
    ELSE h

----------------------------------------------------------------------------
(* state *)

VARIABLES
    config,       \* the Config the program runs with
    state,        \* AppState (main.go:17-26), accessed under state.mu
    heap,         \* the Entity objects allocated so far, by reference
    calls,        \* the calls of refreshEntities so far
    corr,         \* the fetchIncidents goroutine of each call
    rest,         \* the fetchViolationsREST goroutine of each call
    queue,        \* the closures submitted with app.QueueUpdateDraw, FIFO
    list,         \* the tview list surface: rows and current item
    statusText,   \* the status line
    detailsText,  \* the details pane
    batchers,     \* the batch-scheduling goroutines of updateListView
    ui,           \* where the UI loop is inside a handler
    redraws,      \* goroutines of main.go:164-172 that have not queued yet
    fetchCalls,   \* number of calls of FetchEntities so far
    keys,         \* key presses handled in this behaviour
    sessions,     \* interactive sessions started so far
    renders,      \* per call of updateListView that paints: what was painted
    crashed,      \* the process was terminated by an unrecovered panic
    accessed      \* the accesses to the fields of AppState made so far

vars == <<config, state, heap, calls, corr, rest, queue, list, statusText,
          detailsText, batchers, ui, redraws, fetchCalls, keys, sessions, renders,
          crashed, accessed>>

\* an access of an execution unit to a field of AppState, and whether the
\* unit holds state.mu at that point
Access(unit, field, write, locked) ==
    [unit |-> unit, field |-> field, write |-> write, locked |-> locked]

\* the execution units of which there is one: the UI loop and the ticker
\* loop (main.go:73-77); every other goroutine can exist several times
SingleUnits == {"ui", "timer"}

\* the goroutine a call of refreshEntities of this kind runs in (main.go:68, 74-76, 103)
UnitOf(ticker) == IF ticker THEN "timer" ELSE "refresh"

\* main.go:310-316
GuardAccesses(unit, busy) ==
    {Access(unit, "refreshInProgress", FALSE, TRUE)}
    \cup (IF busy THEN {} ELSE {Access(unit, "refreshInProgress", TRUE, TRUE)})

PublishAccesses_m(unit) ==
    {Access(unit, f, TRUE, FALSE) :
        f \in {"entities", "errMsg", "lastRefresh", "refreshInProgress"}}

\* main.go:322-327
PublishAccesses(unit) ==
    {Access(unit, f, TRUE, TRUE) :
        f \in {"entities", "errMsg", "lastRefresh", "refreshInProgress"}}

\* main.go:350-357
SnapshotAccesses ==
    {Access("ui", f, FALSE, TRUE) :
        f \in {"entities", "refreshInProgress", "errMsg", "lastRefresh", "selectedIndex"}}

\* main.go:258-262, 274
ShowDetailsAccesses(st, index) ==
    {Access("ui", "entities", FALSE, TRUE)}
    \cup (IF index < Len(st.entities)
          THEN {Access("ui", "selectedIndex", TRUE, TRUE)} ELSE {})

\* main.go:111-114
PromptAccesses ==
    {Access("ui", "searchQuery", TRUE, TRUE), Access("ui", "lastSearchPos", TRUE, TRUE)}

\* the test of main.go:116 and 125, made without the lock
SearchGuardAccess == Access("ui", "searchQuery", FALSE, FALSE)

\* main.go:135-137 and 179-181
SessionAccesses ==
    {Access("ui", "selectedIndex", FALSE, TRUE), Access("ui", "entities", FALSE, TRUE)}

NoList == [Entities |-> <<>>, Error |-> ""]
Idle == [pc |-> "idle", found |-> -1, sel |-> 0, rid |-> 0, key |-> ""]
NoDetails == [shown |-> FALSE, alert |-> FALSE, type |-> <<>>, msg |-> <<>>]
EmptyList == [items |-> <<>>, currentItem |-> 0]

\* &AppState{lastRefresh: time.Now()} (main.go:42): Go zero values elsewhere
\* state.mu: who holds the mutex; a refresh goroutine is known by the number
\* of its call of refreshEntities
MuFree == 0
MuUI == -1

InitState ==
    [entities |-> <<>>, lastRefresh |-> 0, refreshInProgress |-> FALSE,
     selectedIndex |-> 0, errMsg |-> "", searchQuery |-> <<>>, lastSearchPos |-> 0,
     mu |-> MuFree]

\* the resolved configurations tried: API key absent, short or long
Configs ==
    [APIKey : {KeyOfLen(0), KeyOfLen(ShortKeyLen), KeyOfLen(FullKeyLen)},
     AccountID : {<<>>, <<"1">>}]

InitCommon ==
    /\ heap = <<>>
    /\ calls = <<>>
    /\ corr = <<>>
    /\ rest = <<>>
    /\ queue = <<>>
    /\ list = EmptyList
    /\ statusText = "loading"
    /\ detailsText = NoDetails
    /\ batchers = <<>>
    /\ ui = Idle
    /\ redraws = 0
    /\ fetchCalls = 0
    /\ keys = 0
    /\ sessions = 0
    /\ renders = <<>>
    /\ crashed = FALSE
    /\ accessed = {}

\* main.go:28-77 up to the start of the UI loop
Init ==
    /\ config \in Configs
    /\ state = InitState
    /\ InitCommon

----------------------------------------------------------------------------
(* responses of the backend that are tried *)

sG1 == <<"g", "1">>
sG2 == <<"g", "2">>
sG9 == <<"g", "9">>
sDB == <<"d", "b", "-", "0", "1">>
sDBPROD == <<"D", "B", "-", "0", "1", "-", "P", "R", "O", "D">>
sWEB == <<"w", "e", "b">>
sX == <<"X">>
sY == <<"Y">>
sD1 == <<"d", "1">>
sD2 == <<"d", "2">>

EntitiesBody(ents) ==
    Body(JObj(<<KV("data", JObj(<<KV("actor", JObj(<<KV("entitySearch",
         JObj(<<KV("results", JObj(<<KV("entities", JArr(ents))>>))>>))>>))>>))>>))

HostJSON(name, guid) ==
    JObj(<<KV("guid", JStr(guid)), KV("name", JStr(name)), KV("entityType", JStr(sHOST))>>)

\* two hosts; an element without a name and one that is not an object are skipped
TwoHosts ==
    EntitiesBody(<<HostJSON(sDB, sG1), JObj(<<KV("guid", JStr(sG9))>>), JNum,
                   HostJSON(sWEB, sG2)>>)
NoHosts == EntitiesBody(<<>>)
ErrorsBody == Body(JObj(<<KV("errors", JArr(<<JObj(<<KV("message", JStr(sX))>>)>>))>>))
\* a well-formed answer of another shape, as sent with a 4xx or 5xx status
OtherShape == Body(JObj(<<KV("error", JObj(<<KV("title", JStr(sX))>>))>>))
NullData == Body(JObj(<<KV("data", JNull)>>))
ArrayBody == Body(JArr(<<>>))

FetchOutcomes ==
    {Transport, ReadErr, BadJSON, ArrayBody, ErrorsBody, OtherShape, NullData,
     NoHosts, TwoHosts}

\* the failures among them: everything but a response of the expected shape
FetchFailures == FetchOutcomes \ {NoHosts, TwoHosts}

----------------------------------------------------------------------------
(* refresh coordinator: refreshEntities (main.go:309-346) *)

\* the references of the objects a fetch allocates for the entities ents
Refs_m(h, ents) == [i \in 1..Len(ents) |-> i]

\* the references of the objects ents allocated after those of h
\* (&Entity{...} at newrelic.go:146 and 456-496)
Refs(h, ents) == [i \in 1..Len(ents) |-> Len(h) + i]

\* ticker: the ticker loop (main.go:74-76) is inside this call; submitted: the
\* render requests of this cycle so far; failed: its fetch met a failure
NewCall(pc, kind) ==
    [pc |-> pc, ticker |-> (kind = "timer" /\ pc # "rejected"), result |-> NoList,
     submitted |-> <<>>, failed |-> FALSE]
\* no answer has arrived yet
NoAnswer == [kind |-> "none", valid |-> FALSE, json |-> JNull]

\* probe: the answer to the probe; found: what extractIncidentsGeneric
\* returned for it; answer: the answer to the REST request
NoCorr == [pc |-> "none", incidents |-> 0, matched |-> 0, timedOut |-> FALSE,
           probe |-> NoAnswer, found |-> <<>>, faulted |-> FALSE]
NoRest == [pc |-> "none", answer |-> NoAnswer, faulted |-> FALSE]

GuardBusy_m(st) == FALSE

\* the test of main.go:311
GuardBusy(st) == st.refreshInProgress

\* A call of refreshEntities, from the ticker loop (main.go:74-76) or in a
\* goroutine of its own (main.go:68, 103), up to its first unlock
\* (main.go:310-316).  The ticker loop makes its next call when the previous
\* one has returned; the space key is handled by the UI loop.
Trigger(kind, maxCalls) ==
    /\ ~crashed
    /\ Len(calls) < maxCalls
    /\ kind = "timer" => \A c \in 1..Len(calls) : ~calls[c].ticker
    /\ kind = "go" => ui.pc = "idle"
    /\ IF GuardBusy(state)
       THEN /\ calls' = Append(calls, NewCall("rejected", kind))
            /\ state' = state
       ELSE /\ calls' = Append(calls, NewCall("accepted", kind))
            /\ state' = [state EXCEPT !.refreshInProgress = TRUE]
    /\ corr' = Append(corr, NoCorr)
    /\ rest' = Append(rest, NoRest)
    /\ accessed' = accessed \cup GuardAccesses(UnitOf(kind = "timer"), GuardBusy(state))
    /\ UNCHANGED <<config, heap, queue, list, statusText, detailsText, batchers,
                   ui, redraws, fetchCalls, keys, sessions, crashed, renders>>

\* FetchEntities is called (main.go:319) and runs up to client.Do
\* (newrelic.go:54-100): it returns the test entities, panics or sends
CallFetch(c) ==
    /\ ~crashed
    /\ calls[c].pc = "accepted"
    /\ fetchCalls' = fetchCalls + 1
    /\ IF MissingCredentials(config)
       THEN /\ heap' = heap \o FetchNoCredentials.Entities
            /\ calls' = [calls EXCEPT ![c].pc = "fetched", ![c].failed = TRUE,
                           ![c].result = [FetchNoCredentials EXCEPT
                               !.Entities = Refs(heap, FetchNoCredentials.Entities)]]
            /\ crashed' = crashed
       ELSE IF FetchPanics(config)
       THEN /\ calls' = [calls EXCEPT ![c].pc = "panic"]
            /\ crashed' = TRUE
            /\ heap' = heap
       ELSE /\ calls' = [calls EXCEPT ![c].pc = "net"]
            /\ UNCHANGED <<heap, crashed, renders>>
    /\ UNCHANGED <<config, state, corr, rest, queue, list, statusText,
                   detailsText, batchers, ui, redraws, keys, sessions, renders,
                   accessed>>

\* client.Do returns with outcome o and FetchEntities runs to its return
\* (newrelic.go:100-169)
NetReturn(c, o) ==
    /\ ~crashed
    /\ calls[c].pc = "net"
    /\ LET r == FetchEntitiesAfter(o)
       IN  /\ heap' = heap \o r.Entities
           /\ calls' = [calls EXCEPT ![c].pc = "fetched",
                          ![c].failed = (o \in FetchFailures),
                          ![c].result = [r EXCEPT !.Entities = Refs(heap, r.Entities)]]
    /\ UNCHANGED <<config, state, corr, rest, queue, list, statusText, detailsText,
                   batchers, ui, redraws, fetchCalls, keys, sessions, crashed, renders,
                   accessed>>

PublishState_m(st, result) ==
    [st EXCEPT !.entities = result.Entities,
               !.errMsg = result.Error,
               !.lastRefresh = @ + 1]

\* the assignments of main.go:322-327, made under the lock
PublishState(st, result) ==
    [st EXCEPT !.entities = result.Entities,
               !.errMsg = result.Error,
               !.lastRefresh = @ + 1,
               !.refreshInProgress = FALSE]

\* main.go:320-327
Publish(c) ==
    /\ ~crashed
    /\ calls[c].pc = "fetched"
    /\ state' = PublishState(state, calls[c].result)
    /\ calls' = [calls EXCEPT ![c].pc = "published"]
    /\ accessed' = accessed \cup PublishAccesses(UnitOf(calls[c].ticker))
    /\ UNCHANGED <<config, heap, corr, rest, queue, list, statusText, detailsText,
                   batchers, ui, redraws, fetchCalls, keys, sessions, crashed, renders>>

\* a closure func() { updateListView(...) } (main.go:331-333, 341-343, 168-171);
\* cycle and phase record who submitted it
UpdateClosure(c, phase) ==
    [kind |-> "update", cycle |-> c, phase |-> phase, ents |-> <<>>,
     s |-> 0, e |-> 0, total |-> 0, selected |-> 0]

QueueUpdateDraw_m(q, f) == q

\* app.QueueUpdateDraw(f): the closure joins the updates the UI loop will run
QueueUpdateDraw(q, f) == Append(q, f)

\* the position of refreshEntities at which main.go:331 is executed
RenderDue(call) == call.pc = "published"

\* app.QueueUpdateDraw of main.go:331-333
QueueRender(c) ==
    /\ ~crashed
    /\ RenderDue(calls[c])
    /\ queue' = QueueUpdateDraw(queue, UpdateClosure(c, "raw"))
    /\ calls' = [calls EXCEPT ![c].pc = "queued", ![c].submitted = Append(@, "raw")]
    /\ UNCHANGED <<config, state, heap, corr, rest, list, statusText, detailsText,
                   batchers, ui, redraws, fetchCalls, keys, sessions, crashed, renders,
                   accessed>>

SpawnDue_m(call) == call.pc = "published"

\* the position of refreshEntities at which main.go:336-345 is executed
SpawnDue(call) == call.pc = "queued"

CorrelatorWanted_m(result) == TRUE

\* the test of main.go:336
CorrelatorWanted(result) == Len(result.Entities) > 0

\* main.go:336-346: the goroutine of fetchIncidents is started when there are
\* entities, and refreshEntities returns; fetchIncidents runs up to client.Do
\* (newrelic.go:172-215)
SpawnCorrelator(c) ==
    /\ ~crashed
    /\ SpawnDue(calls[c])
    /\ calls' = [calls EXCEPT ![c].pc = "done", ![c].ticker = FALSE]
    /\ corr' = [corr EXCEPT ![c].pc =
                   IF CorrelatorWanted(calls[c].result) THEN "probe" ELSE "none"]
    /\ UNCHANGED <<config, state, heap, rest, queue, list, statusText, detailsText,
                   batchers, ui, redraws, fetchCalls, keys, sessions, crashed, renders,
                   accessed>>

----------------------------------------------------------------------------
(* incident correlator: fetchIncidents and fetchViolationsREST *)

IncidentJSON(title, desc, key, guid) ==
    JObj(<<KV("title", JStr(title)), KV("description", JStr(desc)), KV(key, JStr(guid))>>)

ActorBody(kvs) == Body(JObj(<<KV("data", JObj(<<KV("actor", JObj(kvs))>>))>>))

\* one incident on g1
IncidentG1 == ActorBody(<<KV("incident", IncidentJSON(sX, sD1, "entityGuid", sG1))>>)
\* two incidents on g1 under two keys of one mapping
IncidentsBoth ==
    ActorBody(<<KV("incident", IncidentJSON(sX, sD1, "entityGuid", sG1)),
                KV("incidentManagement", IncidentJSON(<<>>, sD2, "guid", sG1))>>)
\* one incident on an entity that is not in the list
IncidentG9 == ActorBody(<<KV("incident", IncidentJSON(sX, sD1, "guid", sG9))>>)

ProbeOutcomes == {Transport, ReadErr, BadJSON, ErrorsBody, IncidentG1, IncidentsBoth, IncidentG9}

ViolationsBody(vs) == Body(JObj(<<KV("violations", JArr(vs))>>))

\* one open violation whose target is DB-01-PROD, one without a target
ViolationDB ==
    ViolationsBody(<<
        JObj(<<KV("condition_name", JStr(sY)), KV("details", JStr(sD2)),
               KV("targets", JArr(<<JObj(<<KV("name", JStr(sDBPROD))>>)>>))>>),
        JObj(<<KV("condition_name", JStr(sX))>>) >>)
NoViolations == ViolationsBody(<<>>)

RestOutcomes == {Transport, BadJSON, NoViolations, ViolationDB}

\* the number of assignments the loops of newrelic.go:251-265 make (matched)
CountMatches(h, ents, incidents) ==
    Cardinality(UNION { UNION { {<<i, g, k>> : k \in {k \in 1..Len(ents) :
                                    h[ents[k]].GUID = incidents[i].GUIDs[g]}} :
                                g \in 1..Len(incidents[i].GUIDs) } :
                        i \in 1..Len(incidents) })

RestFallbackDue_m(incidents, matched) == matched = 0

\* the test of newrelic.go:232 that sends fetchIncidents to the REST fallback
RestFallbackDue(incidents, matched) == Len(incidents) = 0

\* client.Do of the probe returns with outcome o (newrelic.go:215-268):
\* fetchIncidents returns on an error, hands over to the REST fallback when
\* no incident was extracted, and otherwise marks the matching entities
ProbeReturn(c, o) ==
    /\ ~crashed
    /\ corr[c].pc = "probe"
    /\ IF o.kind # "body"
       THEN /\ corr' = [corr EXCEPT ![c].pc = "ret", ![c].probe = o]
            /\ UNCHANGED <<heap, rest, renders>>
       ELSE \E incidents \in extractIncidentsGeneric(o) :
              LET ents == calls[c].result.Entities
                  matched == CountMatches(heap, ents, incidents)
              IN  IF RestFallbackDue(incidents, matched)
                  THEN /\ corr' = [corr EXCEPT ![c].pc = "restwait",
                                     ![c].incidents = Len(incidents),
                                     ![c].matched = matched,
                                     ![c].probe = o, ![c].found = incidents]
                       /\ rest' = [rest EXCEPT ![c].pc = "net"]
                       /\ heap' = heap
                  ELSE /\ corr' = [corr EXCEPT ![c].pc = "ret",
                                     ![c].incidents = Len(incidents),
                                     ![c].matched = matched,
                                     ![c].probe = o, ![c].found = incidents]
                       /\ heap' = MatchIncidents(heap, ents, incidents, 1)
                       /\ rest' = rest
    /\ UNCHANGED <<config, state, calls, queue, list, statusText, detailsText,
                   batchers, ui, redraws, fetchCalls, keys, sessions, crashed, renders,
                   accessed>>

\* client.Do of fetchViolationsREST returns with outcome o and the goroutine
\* runs to its end, closing done (newrelic.go:236-239, 372-452)
RestReturn(c, o) ==
    /\ ~crashed
    /\ rest[c].pc = "net"
    /\ heap' = ViolationsApplied(heap, calls[c].result.Entities, o)
    /\ rest' = [rest EXCEPT ![c].pc = "done", ![c].answer = o]
    /\ UNCHANGED <<config, state, calls, corr, queue, list, statusText, detailsText,
                   batchers, ui, redraws, fetchCalls, keys, sessions, crashed, renders,
                   accessed>>

\* a panic raised in fetchIncidents after the answer to the probe has come
\* (newrelic.go:228-266): the deferred function of newrelic.go:173-177
\* recovers it and fetchIncidents returns
ProbeFault(c) ==
    /\ ~crashed
    /\ corr[c].pc = "probe"
    /\ corr' = [corr EXCEPT ![c].pc = "ret", ![c].faulted = TRUE]
    /\ UNCHANGED <<config, state, heap, calls, rest, queue, list, statusText,
                   detailsText, batchers, ui, redraws, fetchCalls, keys, sessions,
                   crashed, renders, accessed>>

\* a panic raised in fetchViolationsREST after the answer has come
\* (newrelic.go:385-436): the deferred function of newrelic.go:350-354
\* recovers it, the function returns and done is closed (newrelic.go:237)
RestFault(c) ==
    /\ ~crashed
    /\ rest[c].pc = "net"
    /\ rest' = [rest EXCEPT ![c].pc = "done", ![c].faulted = TRUE]
    /\ UNCHANGED <<config, state, heap, calls, corr, queue, list, statusText,
                   detailsText, batchers, ui, redraws, fetchCalls, keys, sessions,
                   crashed, renders, accessed>>

\* case <-done (newrelic.go:241)
RestAwaited(c) ==
    /\ ~crashed
    /\ corr[c].pc = "restwait"
    /\ rest[c].pc = "done"
    /\ corr' = [corr EXCEPT ![c].pc = "ret"]
    /\ UNCHANGED <<config, state, heap, calls, rest, queue, list, statusText,
                   detailsText, batchers, ui, redraws, fetchCalls, keys, sessions,
                   crashed, renders,
                   accessed>>

\* case <-time.After(15 * time.Second) (newrelic.go:243)
RestTimeout(c) ==
    /\ ~crashed
    /\ corr[c].pc = "restwait"
    /\ corr' = [corr EXCEPT ![c].pc = "ret", ![c].timedOut = TRUE]
    /\ UNCHANGED <<config, state, heap, calls, rest, queue, list, statusText,
                   detailsText, batchers, ui, redraws, fetchCalls, keys, sessions,
                   crashed, renders,
                   accessed>>

\* fetchIncidents has returned: app.QueueUpdateDraw of main.go:341-343
CorrQueueRender(c) ==
    /\ ~crashed
    /\ corr[c].pc = "ret"
    /\ queue' = QueueUpdateDraw(queue, UpdateClosure(c, "corr"))
    /\ corr' = [corr EXCEPT ![c].pc = "done"]
    /\ calls' = [calls EXCEPT ![c].submitted = Append(@, "corr")]
    /\ UNCHANGED <<config, state, heap, rest, list, statusText, detailsText,
                   batchers, ui, redraws, fetchCalls, keys, sessions, crashed, renders,
                   accessed>>

----------------------------------------------------------------------------
(* the list surface (tview.List) and showDetails *)

\* List.SetCurrentItem: the index it settles on for a list of n rows
ClampItem(index, n) ==
    LET a == IF index < 0 THEN n + index ELSE index
        b == IF a >= n THEN n - 1 ELSE a
    IN  IF b < 0 THEN 0 ELSE b

ShowDetailsState_m(st, index) == [st EXCEPT !.selectedIndex = index]

\* showDetails (main.go:256-276): the assignment to selectedIndex
ShowDetailsState(st, index) ==
    IF index < Len(st.entities) THEN [st EXCEPT !.selectedIndex = index] ELSE st

\* showDetails (main.go:256-276): the text of the details pane
ShowDetailsText(st, h, index) ==
    IF index < Len(st.entities)
    THEN LET entity == h[st.entities[index + 1]]
         IN  IF entity.HasAlert
             THEN [shown |-> TRUE, alert |-> TRUE, type |-> entity.AlertType,
                   msg |-> entity.AlertMessage]
             ELSE [shown |-> TRUE, alert |-> FALSE, type |-> <<>>, msg |-> <<>>]
    ELSE NoDetails

\* list.SetCurrentItem(index) with the changed handler of main.go:85-87:
\* the handler runs when the item changes
SetCurrentState(st, l, index) ==
    IF ClampItem(index, Len(l.items)) # l.currentItem
    THEN ShowDetailsState(st, ClampItem(index, Len(l.items)))
    ELSE st

SetCurrentText(st, h, l, index, old) ==
    IF ClampItem(index, Len(l.items)) # l.currentItem
    THEN ShowDetailsText(st, h, ClampItem(index, Len(l.items)))
    ELSE old

SetCurrentList(l, index) == [l EXCEPT !.currentItem = ClampItem(index, Len(l.items))]

SetCurrentAccesses(st, l, index) ==
    IF ClampItem(index, Len(l.items)) # l.currentItem
    THEN ShowDetailsAccesses(st, ClampItem(index, Len(l.items)))
    ELSE {}

----------------------------------------------------------------------------
(* render scheduler: updateListView (main.go:348-430) *)

StatusOf_m(refreshInProgress, errMsg, n) ==
    IF errMsg # "" THEN "error"
    ELSE IF refreshInProgress THEN "fetching"
    ELSE IF n = 0 THEN "noentities"
    ELSE "updated"

\* the status line chosen at main.go:363-373
StatusOf(refreshInProgress, errMsg, n) ==
    IF refreshInProgress THEN "fetching"
    ELSE IF errMsg # "" THEN "error"
    ELSE IF n = 0 THEN "noentities"
    ELSE "updated"

NothingToPaint_m(refreshInProgress, errMsg, n) ==
    ~refreshInProgress /\ errMsg = "" /\ n = 0

\* updateListView returns without painting (main.go:367-369, 380-382)
NothingToPaint(refreshInProgress, errMsg, n) ==
    \/ ~refreshInProgress /\ errMsg = "" /\ n = 0
    \/ n = 0

\* end of the batch that starts at start (main.go:391-394)
BatchEnd(start, total) ==
    IF start + batchSize > total THEN total ELSE start + batchSize

ClampSel_m(selected, total) == selected

\* the selection restored by the final batch (main.go:414-420)
ClampSel(selected, total) ==
    LET sel == IF selected < 0 /\ total > 0 THEN 0 ELSE selected
    IN  IF sel >= total THEN 0 ELSE sel

\* the closure of main.go:398-425 for the batch [start, end) of render rid
BatchClosure_m(rid, b, start) ==
    [kind |-> "batch", cycle |-> rid, phase |-> "batch", ents |-> <<>>,
     s |-> start, e |-> BatchEnd(start, b.total), total |-> b.total,
     selected |-> b.selected]

BatchClosure(rid, b, start) ==
    [kind |-> "batch", cycle |-> rid, phase |-> "batch",
     ents |-> SubSeq(b.ents, start + 1, BatchEnd(start, b.total)),
     s |-> start, e |-> BatchEnd(start, b.total), total |-> b.total,
     selected |-> b.selected]

\* the UI loop runs a closure of updateListView: snapshot under the lock,
\* list.Clear, status line, and the start of the batch goroutine
UIUpdate ==
    /\ ~crashed
    /\ ui.pc = "idle"
    /\ queue # <<>>
    /\ Head(queue).kind = "update"
    /\ queue' = Tail(queue)
    /\ list' = EmptyList
    /\ statusText' = StatusOf(state.refreshInProgress, state.errMsg, Len(state.entities))
    /\ IF NothingToPaint(state.refreshInProgress, state.errMsg, Len(state.entities))
       THEN UNCHANGED <<batchers, renders>>
       ELSE /\ batchers' = Append(batchers,
                   [rid |-> Len(renders) + 1, ents |-> state.entities,
                    total |-> Len(state.entities), selected |-> state.selectedIndex,
                    start |-> 0])
            /\ renders' = Append(renders,
                   [total |-> Len(state.entities), selected |-> state.selectedIndex,
                    batches |-> 0, rows |-> 0, selSet |-> 0, sel |-> -1])
    /\ accessed' = accessed \cup SnapshotAccesses
    /\ UNCHANGED <<config, state, heap, calls, corr, rest, detailsText, ui, redraws,
                   fetchCalls, keys, sessions, crashed>>

\* one turn of the loop of main.go:390-428: a batch is submitted, the
\* goroutine sleeps and either goes on or ends
BatcherStep(i) ==
    /\ ~crashed
    /\ LET b == batchers[i]
       IN  /\ queue' = QueueUpdateDraw(queue, BatchClosure(b.rid, b, b.start))
           /\ batchers' =
                  IF b.start + batchSize < b.total
                  THEN [batchers EXCEPT ![i].start = @ + batchSize]
                  ELSE SubSeq(batchers, 1, i - 1) \o SubSeq(batchers, i + 1, Len(batchers))
    /\ UNCHANGED <<config, state, heap, calls, corr, rest, list, statusText,
                   detailsText, ui, redraws, fetchCalls, keys, sessions, renders,
                   crashed,
                   accessed>>

\* the rows a batch closure appends (main.go:399-411)
PaintRows(h, b) ==
    [j \in 1..Len(b.ents) |->
        [name |-> h[b.ents[j]].Name, alert |-> h[b.ents[j]].HasAlert,
         idx |-> b.s + j - 1]]

\* the UI loop runs a batch closure up to the test of main.go:413; the
\* first row added to an empty list makes the list call the changed handler
UIBatch ==
    /\ ~crashed
    /\ ui.pc = "idle"
    /\ queue # <<>>
    /\ Head(queue).kind = "batch"
    /\ LET b == Head(queue)
       IN  /\ queue' = Tail(queue)
           /\ list' = [list EXCEPT !.items = @ \o PaintRows(heap, b)]
           /\ IF list.items = <<>> /\ b.ents # <<>>
              THEN /\ state' = ShowDetailsState(state, 0)
                   /\ detailsText' = ShowDetailsText(state, heap, 0)
              ELSE UNCHANGED <<state, detailsText>>
           /\ ui' = IF b.e = b.total
                    THEN [pc |-> "paintsel", found |-> -1,
                          sel |-> ClampSel(b.selected, b.total), rid |-> b.cycle,
                          key |-> ""]
                    ELSE Idle
           /\ renders' = [renders EXCEPT ![b.cycle].batches = @ + 1,
                                         ![b.cycle].rows = @ + Len(b.ents)]
    /\ accessed' = accessed \cup (IF list.items = <<>> /\ Head(queue).ents # <<>>
                               THEN ShowDetailsAccesses(state, 0) ELSE {})
    /\ UNCHANGED <<config, heap, calls, corr, rest, statusText, batchers, redraws,
                   fetchCalls, keys, sessions, crashed>>

\* the final batch closure sets the selection (main.go:413-424)
UISetSel ==
    /\ ~crashed
    /\ ui.pc = "paintsel"
    /\ state' = SetCurrentState(state, list, ui.sel)
    /\ detailsText' = SetCurrentText(state, heap, list, ui.sel, detailsText)
    /\ list' = SetCurrentList(list, ui.sel)
    /\ renders' = [renders EXCEPT ![ui.rid].selSet = @ + 1, ![ui.rid].sel = ui.sel]
    /\ ui' = Idle
    /\ accessed' = accessed \cup SetCurrentAccesses(state, list, ui.sel)
    /\ UNCHANGED <<config, heap, calls, corr, rest, queue, statusText, batchers,
                   redraws, fetchCalls, keys, sessions, crashed>>

----------------------------------------------------------------------------
(* search index: findNextMatch (main.go:278-299) and the keys / and n *)

\* the names of the published entities
NamesOf(st, h) == [i \in 1..Len(st.entities) |-> h[st.entities[i]].Name]

SearchStart_m(lastSearchPos) ==
    IF lastSearchPos < 0 THEN 0 ELSE lastSearchPos

\* start of the scan (main.go:286-289)
SearchStart(lastSearchPos) ==
    IF lastSearchPos + 1 < 0 THEN 0 ELSE lastSearchPos + 1

RECURSIVE SearchLoop(_, _, _, _)
\* the loop of main.go:291-297 from i on: the index found, or -1
SearchLoop(names, q, start, i) ==
    IF i >= Len(names) THEN -1
    ELSE LET idx == (start + i) % Len(names)
         IN  IF Contains(ToLower(names[idx + 1]), q) THEN idx
             ELSE SearchLoop(names, q, start, i + 1)

\* the value findNextMatch returns
findNextMatch(st, h) ==
    IF ToLower(st.searchQuery) = <<>> THEN -1
    ELSE SearchLoop(NamesOf(st, h), ToLower(st.searchQuery),
                    SearchStart(st.lastSearchPos), 0)

\* main.go:280-298
FindAccesses(st, h) ==
    {Access("ui", "searchQuery", FALSE, TRUE)}
    \cup (IF ToLower(st.searchQuery) = <<>> THEN {}
          ELSE {Access("ui", "lastSearchPos", FALSE, TRUE),
                Access("ui", "entities", FALSE, TRUE)})
    \cup (IF findNextMatch(st, h) >= 0
          THEN {Access("ui", "lastSearchPos", TRUE, TRUE)} ELSE {})

\* the state findNextMatch leaves (main.go:294)
AfterFind(st, h) ==
    IF findNextMatch(st, h) >= 0
    THEN [st EXCEPT !.lastSearchPos = findNextMatch(st, h)]
    ELSE st

\* main.go:116-122 and 125-131 up to the return of findNextMatch, from state st
SearchFrom(st, key) ==
    /\ state' = IF st.searchQuery # <<>> THEN AfterFind(st, heap) ELSE st
    /\ ui' = IF st.searchQuery # <<>> /\ findNextMatch(st, heap) >= 0
             THEN [pc |-> "srch1", found |-> findNextMatch(st, heap), sel |-> 0,
                   rid |-> 0, key |-> key]
             ELSE [Idle EXCEPT !.key = key,
                               !.found = IF st.searchQuery # <<>>
                                         THEN findNextMatch(st, heap) ELSE -1]

\* the queries typed at the prompt
Queries == {<<>>, <<"0", "1">>, <<"D", "B">>, <<"z">>}

\* key / (main.go:105-123): the prompt stores the query and resets the
\* cursor, then the first match is looked up
KeySlash(q, maxKeys) ==
    /\ ~crashed
    /\ ui.pc = "idle"
    /\ keys < maxKeys
    /\ keys' = keys + 1
    /\ SearchFrom([state EXCEPT !.searchQuery = q, !.lastSearchPos = -1], "/")
    /\ accessed' = accessed \cup PromptAccesses \cup {SearchGuardAccess}
           \cup (IF q # <<>>
                 THEN FindAccesses([state EXCEPT !.searchQuery = q, !.lastSearchPos = -1], heap)
                 ELSE {})
    /\ UNCHANGED <<config, heap, calls, corr, rest, queue, list, statusText,
                   detailsText, batchers, redraws, fetchCalls, sessions, renders,
                   crashed>>

\* key n (main.go:124-132)
KeyN(maxKeys) ==
    /\ ~crashed
    /\ ui.pc = "idle"
    /\ keys < maxKeys
    /\ keys' = keys + 1
    /\ SearchFrom(state, "n")
    /\ accessed' = accessed \cup {SearchGuardAccess}
           \cup (IF state.searchQuery # <<>> THEN FindAccesses(state, heap) ELSE {})
    /\ UNCHANGED <<config, heap, calls, corr, rest, queue, list, statusText,
                   detailsText, batchers, redraws, fetchCalls, sessions, renders,
                   crashed>>

\* list.SetCurrentItem(found) (main.go:119, 128)
SearchSel ==
    /\ ~crashed
    /\ ui.pc = "srch1"
    /\ state' = SetCurrentState(state, list, ui.found)
    /\ detailsText' = SetCurrentText(state, heap, list, ui.found, detailsText)
    /\ list' = SetCurrentList(list, ui.found)
    /\ ui' = [ui EXCEPT !.pc = "srch2"]
    /\ accessed' = accessed \cup SetCurrentAccesses(state, list, ui.found)
    /\ UNCHANGED <<config, heap, calls, corr, rest, queue, statusText, batchers,
                   redraws, fetchCalls, keys, sessions, renders, crashed>>

\* showDetails(found, ...) (main.go:120, 129)
SearchShow ==
    /\ ~crashed
    /\ ui.pc = "srch2"
    /\ state' = ShowDetailsState(state, ui.found)
    /\ detailsText' = ShowDetailsText(state, heap, ui.found)
    /\ ui' = [Idle EXCEPT !.found = ui.found, !.key = ui.key]
    /\ accessed' = accessed \cup ShowDetailsAccesses(state, ui.found)
    /\ UNCHANGED <<config, heap, calls, corr, rest, queue, list, statusText,
                   batchers, redraws, fetchCalls, keys, sessions, renders, crashed>>

----------------------------------------------------------------------------
(* the other keys *)

\* arrow down (d = 1) or up (d = -1) on a list that wraps around
\* (main.go:47): the list moves and calls the changed handler (main.go:85-87)
KeyMove(d, maxKeys) ==
    /\ ~crashed
    /\ ui.pc = "idle"
    /\ keys < maxKeys
    /\ Len(list.items) > 1
    /\ keys' = keys + 1
    /\ LET new == (list.currentItem + d) % Len(list.items)
       IN  /\ list' = [list EXCEPT !.currentItem = new]
           /\ state' = ShowDetailsState(state, new)
           /\ detailsText' = ShowDetailsText(state, heap, new)
    /\ ui' = Idle
    /\ accessed' = accessed \cup ShowDetailsAccesses(state, (list.currentItem + d) % Len(list.items))
    /\ UNCHANGED <<config, heap, calls, corr, rest, queue, statusText, batchers,
                   redraws, fetchCalls, sessions, renders, crashed>>

\* Enter: the row's own handler (main.go:407-410) and then the selected
\* handler of the list (main.go:80-82)
KeyEnter(maxKeys) ==
    /\ ~crashed
    /\ ui.pc = "idle"
    /\ keys < maxKeys
    /\ list.currentItem < Len(list.items)
    /\ keys' = keys + 1
    /\ LET idx == list.items[list.currentItem + 1].idx
           st1 == SetCurrentState(state, list, idx)
           l1 == SetCurrentList(list, idx)
           st2 == ShowDetailsState(st1, idx)
       IN  /\ list' = l1
           /\ state' = ShowDetailsState(st2, l1.currentItem)
           /\ detailsText' = ShowDetailsText(st2, heap, l1.currentItem)
    /\ ui' = Idle
    /\ accessed' = accessed \cup (LET idx == list.items[list.currentItem + 1].idx
                                st1 == SetCurrentState(state, list, idx)
                                l1 == SetCurrentList(list, idx)
                                st2 == ShowDetailsState(st1, idx)
                            IN  SetCurrentAccesses(state, list, idx)
                                \cup ShowDetailsAccesses(st1, idx)
                                \cup ShowDetailsAccesses(st2, l1.currentItem))
    /\ UNCHANGED <<config, heap, calls, corr, rest, queue, statusText, batchers,
                   redraws, fetchCalls, sessions, renders, crashed>>

\* the test of main.go:136 and 180
SessionAllowed(st) == st.selectedIndex >= 0 /\ st.selectedIndex < Len(st.entities)

\* key s or r (main.go:133-233): app.Suspend runs the external program and
\* the UI loop is blocked until it exits
KeySession(maxSessions) ==
    /\ ~crashed
    /\ ui.pc = "idle"
    /\ sessions < maxSessions
    /\ SessionAllowed(state)
    /\ sessions' = sessions + 1
    /\ ui' = [Idle EXCEPT !.pc = "session"]
    /\ accessed' = accessed \cup SessionAccesses
    /\ UNCHANGED <<config, state, heap, calls, corr, rest, queue, list, statusText,
                   detailsText, batchers, redraws, fetchCalls, keys, renders, crashed>>

\* the external program exits; the handler starts the goroutine of
\* main.go:164-172 (220-229) and returns
SessionEnd ==
    /\ ~crashed
    /\ ui.pc = "session"
    /\ ui' = Idle
    /\ redraws' = redraws + 1
    /\ UNCHANGED <<config, state, heap, calls, corr, rest, queue, list, statusText,
                   detailsText, batchers, fetchCalls, keys, sessions, renders, crashed,
                   accessed>>

\* app.QueueUpdateDraw of main.go:168-171 (225-228)
RedrawQueue ==
    /\ ~crashed
    /\ redraws > 0
    /\ redraws' = redraws - 1
    /\ queue' = QueueUpdateDraw(queue, UpdateClosure(0, "redraw"))
    /\ UNCHANGED <<config, state, heap, calls, corr, rest, list, statusText,
                   detailsText, batchers, ui, fetchCalls, keys, sessions, renders,
                   crashed,
                   accessed>>

----------------------------------------------------------------------------
(* the lock sections of state.mu, one step for Lock and one for the section
   up to its Unlock *)

\* state.mu.Lock() by a unit, once the mutex is free
Lock(st, unit) == [st EXCEPT !.mu = unit]

Unlock_m(st) == st

\* state.mu.Unlock()
Unlock(st) == [st EXCEPT !.mu = MuFree]

\* a call of refreshEntities, made by the ticker loop (main.go:74-76) or for
\* the space key (main.go:102-103), has got through state.mu.Lock() of main.go:310
RefreshLock(kind, maxCalls, maxKeys) ==
    /\ ~crashed
    /\ Len(calls) < maxCalls
    /\ kind = "timer" => \A c \in 1..Len(calls) : ~calls[c].ticker
    /\ kind = "go" => ui.pc = "idle" /\ keys < maxKeys
    /\ keys' = IF kind = "go" THEN keys + 1 ELSE keys
    /\ state.mu = MuFree
    /\ calls' = Append(calls, NewCall("guard", kind))
    /\ corr' = Append(corr, NoCorr)
    /\ rest' = Append(rest, NoRest)
    /\ state' = Lock(state, Len(calls) + 1)
    /\ UNCHANGED <<config, heap, queue, list, statusText, detailsText, batchers, ui, redraws, fetchCalls, sessions, renders, crashed, accessed>>

\* main.go:311-316: the guard is tested, and set or not, and the lock released
RefreshGuard(c) ==
    /\ ~crashed
    /\ calls[c].pc = "guard"
    /\ IF GuardBusy(state)
       THEN /\ calls' = [calls EXCEPT ![c].pc = "rejected", ![c].ticker = FALSE]
            /\ state' = Unlock(state)
       ELSE /\ calls' = [calls EXCEPT ![c].pc = "accepted"]
            /\ state' = Unlock([state EXCEPT !.refreshInProgress = TRUE])
    /\ accessed' = accessed \cup GuardAccesses(UnitOf(calls[c].ticker), GuardBusy(state))
    /\ UNCHANGED <<config, heap, corr, rest, queue, list, statusText, detailsText, batchers, ui, redraws, fetchCalls, keys, sessions, renders, crashed>>

\* state.mu.Lock() of main.go:322, after FetchEntities has returned
PublishLock(c) ==
    /\ ~crashed
    /\ calls[c].pc = "fetched"
    /\ state.mu = MuFree
    /\ calls' = [calls EXCEPT ![c].pc = "publishing"]
    /\ state' = Lock(state, c)
    /\ UNCHANGED <<config, heap, corr, rest, queue, list, statusText, detailsText, batchers, ui, redraws, fetchCalls, keys, sessions, renders, crashed, accessed>>

\* main.go:323-327
PublishUnlock(c) ==
    /\ ~crashed
    /\ calls[c].pc = "publishing"
    /\ state' = Unlock(PublishState(state, calls[c].result))
    /\ calls' = [calls EXCEPT ![c].pc = "published"]
    /\ accessed' = accessed \cup PublishAccesses(UnitOf(calls[c].ticker))
    /\ UNCHANGED <<config, heap, corr, rest, queue, list, statusText, detailsText, batchers, ui, redraws, fetchCalls, keys, sessions, renders, crashed>>

\* the UI loop takes a closure of updateListView and gets through
\* state.mu.Lock() of main.go:350
UpdateLock ==
    /\ ~crashed
    /\ ui.pc = "idle"
    /\ queue # <<>>
    /\ Head(queue).kind = "update"
    /\ state.mu = MuFree
    /\ queue' = Tail(queue)
    /\ ui' = [Idle EXCEPT !.pc = "snapshot"]
    /\ state' = Lock(state, MuUI)
    /\ UNCHANGED <<config, heap, calls, corr, rest, list, statusText, detailsText, batchers, redraws, fetchCalls, keys, sessions, renders, crashed, accessed>>

\* main.go:351-373 and the start of the batch goroutine: the copies, the
\* unlock, list.Clear and the status line
UpdateUnlock ==
    /\ ~crashed
    /\ ui.pc = "snapshot"
    /\ state' = Unlock(state)
    /\ ui' = Idle
    /\ list' = EmptyList
    /\ statusText' = StatusOf(state.refreshInProgress, state.errMsg, Len(state.entities))
    /\ IF NothingToPaint(state.refreshInProgress, state.errMsg, Len(state.entities))
       THEN UNCHANGED <<batchers, renders>>
       ELSE /\ batchers' = Append(batchers,
                   [rid |-> Len(renders) + 1, ents |-> state.entities,
                    total |-> Len(state.entities), selected |-> state.selectedIndex,
                    start |-> 0])
            /\ renders' = Append(renders,
                   [total |-> Len(state.entities), selected |-> state.selectedIndex,
                    batches |-> 0, rows |-> 0, selSet |-> 0, sel |-> -1])
    /\ accessed' = accessed \cup SnapshotAccesses
    /\ UNCHANGED <<config, heap, calls, corr, rest, queue, detailsText, redraws, fetchCalls, keys, sessions, crashed>>

\* the UI loop runs the rows of a batch closure (main.go:399-411); the first
\* row added to an empty list makes the list call showDetails(0)
BatchPaint ==
    /\ ~crashed
    /\ ui.pc = "idle"
    /\ queue # <<>>
    /\ Head(queue).kind = "batch"
    /\ LET b == Head(queue)
       IN  /\ queue' = Tail(queue)
           /\ list' = [list EXCEPT !.items = @ \o PaintRows(heap, b)]
           /\ ui' = IF list.items = <<>> /\ b.ents # <<>>
                    THEN [pc |-> "showlock", found |-> 0,
                          sel |-> ClampSel(b.selected, b.total), rid |-> b.cycle,
                          key |-> IF b.e = b.total THEN "sel" ELSE ""]
                    ELSE IF b.e = b.total
                    THEN [pc |-> "paintsel", found |-> -1,
                          sel |-> ClampSel(b.selected, b.total), rid |-> b.cycle,
                          key |-> ""]
                    ELSE Idle
           /\ renders' = [renders EXCEPT ![b.cycle].batches = @ + 1,
                                         ![b.cycle].rows = @ + Len(b.ents)]
    /\ UNCHANGED <<config, state, heap, calls, corr, rest, statusText, detailsText, batchers, redraws, fetchCalls, keys, sessions, crashed, accessed>>

\* state.mu.Lock() of showDetails (main.go:258)
ShowLock ==
    /\ ~crashed
    /\ ui.pc = "showlock"
    /\ state.mu = MuFree
    /\ ui' = [ui EXCEPT !.pc = "show"]
    /\ state' = Lock(state, MuUI)
    /\ UNCHANGED <<config, heap, calls, corr, rest, queue, list, statusText, detailsText, batchers, redraws, fetchCalls, keys, sessions, renders, crashed, accessed>>

\* main.go:259-275: either branch of showDetails unlocks; key says how the
\* handler that called showDetails goes on
ShowUnlock ==
    /\ ~crashed
    /\ ui.pc = "show"
    /\ state' = Unlock(ShowDetailsState(state, ui.found))
    /\ detailsText' = ShowDetailsText(state, heap, ui.found)
    /\ ui' = IF ui.key = "sel" THEN [ui EXCEPT !.pc = "paintsel", !.found = -1, !.key = ""]
             ELSE IF ui.key = "again"
             THEN [ui EXCEPT !.pc = "showlock", !.found = ui.sel, !.key = ""]
             ELSE Idle
    /\ accessed' = accessed \cup ShowDetailsAccesses(state, ui.found)
    /\ UNCHANGED <<config, heap, calls, corr, rest, queue, list, statusText, batchers, redraws, fetchCalls, keys, sessions, renders, crashed>>

\* list.SetCurrentItem(sel) of the final batch (main.go:413-424); the list
\* calls showDetails when the current item changes
SetSelPaint ==
    /\ ~crashed
    /\ ui.pc = "paintsel"
    /\ list' = SetCurrentList(list, ui.sel)
    /\ renders' = [renders EXCEPT ![ui.rid].selSet = @ + 1, ![ui.rid].sel = ui.sel]
    /\ ui' = IF ClampItem(ui.sel, Len(list.items)) # list.currentItem
             THEN [Idle EXCEPT !.pc = "showlock",
                               !.found = ClampItem(ui.sel, Len(list.items))]
             ELSE Idle
    /\ UNCHANGED <<config, state, heap, calls, corr, rest, queue, statusText, detailsText, batchers, redraws, fetchCalls, keys, sessions, crashed, accessed>>

\* key /: the prompt has been answered and the closure given to app.Suspend
\* has got through state.mu.Lock() of main.go:111
PromptLock(maxKeys) ==
    /\ ~crashed
    /\ ui.pc = "idle"
    /\ keys < maxKeys
    /\ state.mu = MuFree
    /\ keys' = keys + 1
    /\ ui' = [Idle EXCEPT !.pc = "prompt", !.key = "/"]
    /\ state' = Lock(state, MuUI)
    /\ UNCHANGED <<config, heap, calls, corr, rest, queue, list, statusText, detailsText, batchers, redraws, fetchCalls, sessions, renders, crashed, accessed>>

\* main.go:112-116: the query is stored, the lock released and the query
\* tested without the lock
PromptUnlock(q) ==
    /\ ~crashed
    /\ ui.pc = "prompt"
    /\ state' = Unlock([state EXCEPT !.searchQuery = q, !.lastSearchPos = -1])
    /\ ui' = IF q # <<>> THEN [ui EXCEPT !.pc = "findwait"] ELSE [Idle EXCEPT !.key = "/"]
    /\ accessed' = accessed \cup PromptAccesses \cup {SearchGuardAccess}
    /\ UNCHANGED <<config, heap, calls, corr, rest, queue, list, statusText, detailsText, batchers, redraws, fetchCalls, keys, sessions, renders, crashed>>

\* key n with a query (main.go:124-126): findNextMatch is called
KeyNFind(maxKeys) ==
    /\ ~crashed
    /\ ui.pc = "idle"
    /\ keys < maxKeys
    /\ state.searchQuery # <<>>
    /\ keys' = keys + 1
    /\ ui' = [Idle EXCEPT !.pc = "findwait", !.key = "n"]
    /\ accessed' = accessed \cup {SearchGuardAccess}
    /\ UNCHANGED <<config, state, heap, calls, corr, rest, queue, list, statusText, detailsText, batchers, redraws, fetchCalls, sessions, renders, crashed>>

\* state.mu.Lock() of findNextMatch (main.go:280)
FindLock ==
    /\ ~crashed
    /\ ui.pc = "findwait"
    /\ state.mu = MuFree
    /\ ui' = [ui EXCEPT !.pc = "find"]
    /\ state' = Lock(state, MuUI)
    /\ UNCHANGED <<config, heap, calls, corr, rest, queue, list, statusText, detailsText, batchers, redraws, fetchCalls, keys, sessions, renders, crashed, accessed>>

\* main.go:282-298: the scan; the deferred Unlock of main.go:281 runs at
\* each of the three returns
FindUnlock ==
    /\ ~crashed
    /\ ui.pc = "find"
    /\ state' = Unlock(AfterFind(state, heap))
    /\ ui' = IF findNextMatch(state, heap) >= 0
             THEN [ui EXCEPT !.pc = "srch1", !.found = findNextMatch(state, heap)]
             ELSE [Idle EXCEPT !.key = ui.key]
    /\ accessed' = accessed \cup FindAccesses(state, heap)
    /\ UNCHANGED <<config, heap, calls, corr, rest, queue, list, statusText, detailsText, batchers, redraws, fetchCalls, keys, sessions, renders, crashed>>

\* list.SetCurrentItem(found) (main.go:119, 128), which calls showDetails
\* when the current item changes, and then showDetails(found) (main.go:120, 129)
SearchSelPaint ==
    /\ ~crashed
    /\ ui.pc = "srch1"
    /\ list' = SetCurrentList(list, ui.found)
    /\ ui' = IF ClampItem(ui.found, Len(list.items)) # list.currentItem
             THEN [ui EXCEPT !.pc = "showlock", !.found = ClampItem(ui.found, Len(list.items)),
                             !.sel = ui.found, !.key = "again"]
             ELSE [ui EXCEPT !.pc = "showlock", !.key = ""]
    /\ UNCHANGED <<config, state, heap, calls, corr, rest, queue, statusText, detailsText, batchers, redraws, fetchCalls, keys, sessions, renders, crashed, accessed>>

\* key s or r: state.mu.Lock() of main.go:135 (179)
SessionLock(maxKeys) ==
    /\ ~crashed
    /\ ui.pc = "idle"
    /\ keys < maxKeys
    /\ state.mu = MuFree
    /\ keys' = keys + 1
    /\ sessions' = sessions + 1
    /\ ui' = [Idle EXCEPT !.pc = "sesslock"]
    /\ state' = Lock(state, MuUI)
    /\ UNCHANGED <<config, heap, calls, corr, rest, queue, list, statusText, detailsText, batchers, redraws, fetchCalls, renders, crashed, accessed>>

\* main.go:136-138 and 175 (180-182 and 232): the lock is released on both
\* branches, before app.Suspend when there is a selected entity
SessionUnlock ==
    /\ ~crashed
    /\ ui.pc = "sesslock"
    /\ state' = Unlock(state)
    /\ ui' = IF SessionAllowed(state) THEN [Idle EXCEPT !.pc = "session"] ELSE Idle
    /\ accessed' = accessed \cup SessionAccesses
    /\ UNCHANGED <<config, heap, calls, corr, rest, queue, list, statusText, detailsText, batchers, redraws, fetchCalls, keys, sessions, renders, crashed>>

----------------------------------------------------------------------------
(* the program *)

Next ==
    \/ \E kind \in {"go", "timer"} : Trigger(kind, MaxCalls)
    \/ \E c \in 1..Len(calls) : CallFetch(c)
    \/ \E c \in 1..Len(calls) : \E o \in FetchOutcomes : NetReturn(c, o)
    \/ \E c \in 1..Len(calls) : Publish(c)
    \/ \E c \in 1..Len(calls) : QueueRender(c)
    \/ \E c \in 1..Len(calls) : SpawnCorrelator(c)
    \/ \E c \in 1..Len(calls) : \E o \in ProbeOutcomes : ProbeReturn(c, o)
    \/ \E c \in 1..Len(calls) : \E o \in RestOutcomes : RestReturn(c, o)
    \/ \E c \in 1..Len(calls) : RestAwaited(c)
    \/ \E c \in 1..Len(calls) : RestTimeout(c)
    \/ \E c \in 1..Len(calls) : CorrQueueRender(c)
    \/ UIUpdate
    \/ \E i \in 1..Len(batchers) : BatcherStep(i)
    \/ UIBatch
    \/ UISetSel
    \/ \E q \in Queries : KeySlash(q, MaxKeys)
    \/ KeyN(MaxKeys)
    \/ SearchSel
    \/ SearchShow
    \/ \E d \in {1, -1} : KeyMove(d, MaxKeys)
    \/ KeyEnter(MaxKeys)
    \/ KeySession(MaxSessions)
    \/ SessionEnd
    \/ RedrawQueue

Spec == Init /\ [][Next]_vars

\* the outcomes tried where several cycles and their correlators overlap
SomeFetchOutcomes == {Transport, NoHosts, TwoHosts}
SomeProbeOutcomes == {Transport, ErrorsBody, IncidentG1, IncidentsBoth, IncidentG9}
SomeRestOutcomes == {Transport, ViolationDB, NoViolations}

\* the configurations tried there: those without the short API key
InitRefresh ==
    /\ config \in {cfg \in Configs : Len(cfg.APIKey) # ShortKeyLen}
    /\ state = InitState
    /\ InitCommon

\* the background units alone: refresh goroutines, ticker loop, correlators
NextRefresh ==
    \/ \E kind \in {"go", "timer"} : Trigger(kind, MaxRefreshCalls)
    \/ \E c \in 1..Len(calls) : CallFetch(c)
    \/ \E c \in 1..Len(calls) : \E o \in SomeFetchOutcomes : NetReturn(c, o)
    \/ \E c \in 1..Len(calls) : Publish(c)
    \/ \E c \in 1..Len(calls) : QueueRender(c)
    \/ \E c \in 1..Len(calls) : SpawnCorrelator(c)
    \/ \E c \in 1..Len(calls) : \E o \in SomeProbeOutcomes : ProbeReturn(c, o)
    \/ \E c \in 1..Len(calls) : \E o \in SomeRestOutcomes : RestReturn(c, o)
    \/ \E c \in 1..Len(calls) : RestAwaited(c)
    \/ \E c \in 1..Len(calls) : RestTimeout(c)
    \/ \E c \in 1..Len(calls) : CorrQueueRender(c)

SpecRefresh == InitRefresh /\ [][NextRefresh]_vars

\* the refresh coordinator and the entity fetcher alone, for every
\* configuration and every outcome of the primary query
NextFetch ==
    \/ \E kind \in {"go", "timer"} : Trigger(kind, MaxFetchCalls)
    \/ \E c \in 1..Len(calls) : CallFetch(c)
    \/ \E c \in 1..Len(calls) : \E o \in FetchOutcomes : NetReturn(c, o)
    \/ \E c \in 1..Len(calls) : Publish(c)
    \/ \E c \in 1..Len(calls) : QueueRender(c)
    \/ \E c \in 1..Len(calls) : SpawnCorrelator(c)

SpecFetch == Init /\ [][NextFetch]_vars

\* refreshes, renders and the keys that move the selection, without the
\* correlators
NextSelect ==
    \/ \E kind \in {"go", "timer"} : Trigger(kind, MaxSelectCalls)
    \/ \E c \in 1..Len(calls) : CallFetch(c)
    \/ \E c \in 1..Len(calls) : \E o \in SomeFetchOutcomes : NetReturn(c, o)
    \/ \E c \in 1..Len(calls) : Publish(c)
    \/ \E c \in 1..Len(calls) : QueueRender(c)
    \/ \E c \in 1..Len(calls) : SpawnCorrelator(c)
    \/ UIUpdate
    \/ \E i \in 1..Len(batchers) : BatcherStep(i)
    \/ UIBatch
    \/ UISetSel
    \/ \E q \in Queries : KeySlash(q, MaxSelectKeys)
    \/ KeyN(MaxSelectKeys)
    \/ SearchSel
    \/ SearchShow
    \/ \E d \in {1, -1} : KeyMove(d, MaxSelectKeys)
    \/ KeyEnter(MaxSelectKeys)

\* the accesses of a cycle that has published entities and of their render
\* (main.go:310-327, 350-357, and showDetails for the first row added)
CycleAccesses ==
    GuardAccesses("refresh", FALSE) \cup PublishAccesses("refresh")
    \cup SnapshotAccesses \cup ShowDetailsAccesses([entities |-> <<1>>], 0)

\* The state the program is in when its first cycle, whose fetch met a
\* transport error, has published and painted the test entities, and the
\* cycle's correlator is waiting for the answer to its probe.
InitSelect ==
    /\ config = [APIKey |-> KeyOfLen(FullKeyLen), AccountID |-> <<"1">>]
    /\ heap = TestEntities
    /\ state = [InitState EXCEPT !.entities = Refs(<<>>, TestEntities),
                                 !.lastRefresh = 1,
                                 !.errMsg = FetchEntitiesAfter(Transport).Error]
    /\ calls = << [NewCall("done", "go") EXCEPT
                      !.result = [Entities |-> Refs(<<>>, TestEntities),
                                  Error |-> FetchEntitiesAfter(Transport).Error],
                      !.submitted = <<"raw">>, !.failed = TRUE] >>
    /\ corr = << [NoCorr EXCEPT !.pc = "probe"] >>
    /\ rest = << NoRest >>
    /\ queue = <<>>
    /\ list = [items |-> PaintRows(TestEntities,
                            [ents |-> Refs(<<>>, TestEntities), s |-> 0]),
               currentItem |-> 0]
    /\ statusText = "error"
    /\ detailsText = ShowDetailsText(state, heap, 0)
    /\ batchers = <<>>
    /\ ui = Idle
    /\ redraws = 0
    /\ fetchCalls = 1
    /\ keys = 0
    /\ sessions = 0
    /\ renders = << [total |-> Len(TestEntities), selected |-> 0, batches |-> 1,
                     rows |-> Len(TestEntities), selSet |-> 1, sel |-> 0] >>
    /\ crashed = FALSE
    /\ accessed = CycleAccesses

SpecSelect == InitSelect /\ [][NextSelect]_vars

\* the host with number i of a large fleet, as FetchEntities parses it
FleetHost(i) ==
    LET tens == Digits[((i \div 10) % 10) + 1]
        ones == Digits[(i % 10) + 1]
    IN  ParseEntity(HostJSON(<<"h", tens, ones>>, <<"g", tens, ones>>))

Fleet(n) == [i \in 1..n |-> FleetHost(i)]

\* The state of InitSelect after the user has moved the selection to row k
\* and a second cycle has fetched n hosts, published them and submitted its
\* raw render; both correlators are waiting for the answer to their probe.
InitRenderFor(n, k) ==
    /\ config = [APIKey |-> KeyOfLen(FullKeyLen), AccountID |-> <<"1">>]
    /\ heap = TestEntities \o Fleet(n)
    /\ state = [InitState EXCEPT !.entities = Refs(TestEntities, Fleet(n)),
                                 !.lastRefresh = 2,
                                 !.selectedIndex = k]
    /\ calls = << [NewCall("done", "go") EXCEPT
                      !.result = [Entities |-> Refs(<<>>, TestEntities),
                                  Error |-> FetchEntitiesAfter(Transport).Error],
                      !.submitted = <<"raw">>, !.failed = TRUE],
                  [NewCall("done", "go") EXCEPT
                      !.result = [Entities |-> Refs(TestEntities, Fleet(n)),
                                  Error |-> ""],
                      !.submitted = <<"raw">>] >>
    /\ corr = << [NoCorr EXCEPT !.pc = "probe"], [NoCorr EXCEPT !.pc = "probe"] >>
    /\ rest = << NoRest, NoRest >>
    /\ queue = << UpdateClosure(2, "raw") >>
    /\ list = [items |-> PaintRows(TestEntities,
                            [ents |-> Refs(<<>>, TestEntities), s |-> 0]),
               currentItem |-> k]
    /\ statusText = "error"
    /\ detailsText = ShowDetailsText([entities |-> Refs(<<>>, TestEntities)],
                                     TestEntities, k)
    /\ batchers = <<>>
    /\ ui = Idle
    /\ redraws = 0
    /\ fetchCalls = 2
    /\ keys = 0
    /\ sessions = 0
    /\ renders = << [total |-> Len(TestEntities), selected |-> 0, batches |-> 1,
                     rows |-> Len(TestEntities), selSet |-> 1, sel |-> 0] >>
    /\ crashed = FALSE
    /\ accessed = CycleAccesses

InitRender ==
    \E n \in 1..MaxRenderN : \E k \in 0..(Len(TestEntities) - 1) : InitRenderFor(n, k)

\* one render, from the closure of updateListView to its last batch
NextRender ==
    \/ UIUpdate
    \/ \E i \in 1..Len(batchers) : BatcherStep(i)
    \/ UIBatch
    \/ UISetSel

SpecRender == InitRender /\ [][NextRender]_vars

sAlpha == <<"a", "l", "p", "h", "a">>
sBeta == <<"b", "e", "t", "a">>
sAlpha2 == <<"a", "l", "p", "h", "a", "2">>
sAlPha == <<"A", "l", "P", "h", "a">>

\* the display names and the queries of the search specification
SearchNames == {sAlpha, sBeta, sAlpha2, sAlPha}

SearchQueries == {<<>>, sAlpha, <<"B", "E">>, <<"z">>}

\* the hosts of a backend answer with these names, as FetchEntities parses them
NamedHosts(names) ==
    [i \in 1..Len(names) |-> ParseEntity(HostJSON(names[i], <<"g", Digits[i + 1]>>))]

\* the set the first cycle published
PrevNames == <<sAlpha, sBeta, sAlpha2, sAlPha>>

\* what the search keys can have left over the first set: the query and the
\* cursor (main.go:112-113, 294), and no search at all (main.go:42)
PastSearches ==
    {[q |-> <<>>, p |-> 0], [q |-> <<>>, p |-> -1]}
    \cup {[q |-> q, p |-> SearchLoop(PrevNames, ToLower(q), SearchStart(c), 0)] :
             q \in SearchQueries \ {<<>>}, c \in -1..(Len(PrevNames) - 1)}

\* the accesses of the search keys that left past (main.go:111-116, 280-298)
PastAccesses(past) ==
    IF past.q = <<>> /\ past.p = 0 THEN {}
    ELSE PromptAccesses \cup {SearchGuardAccess}
         \cup (IF past.q = <<>> THEN {}
               ELSE {Access("ui", "searchQuery", FALSE, TRUE),
                     Access("ui", "lastSearchPos", FALSE, TRUE),
                     Access("ui", "entities", FALSE, TRUE)}
                    \cup (IF past.p >= 0
                          THEN {Access("ui", "lastSearchPos", TRUE, TRUE)} ELSE {}))

\* The first cycle has published and rendered the hosts PrevNames, the user
\* has searched as in past, and a second cycle has published and rendered
\* the hosts names; both correlators are waiting for the answer to their probe.
InitSearchFor(names, past) ==
    LET prev == NamedHosts(PrevNames)
        cur == NamedHosts(names)
        sel0 == IF past.p >= 0 /\ past.q # <<>> THEN past.p ELSE 0
        sel == IF names = <<>> THEN sel0 ELSE ClampSel(sel0, Len(names))
        st == [InitState EXCEPT !.entities = Refs(prev, cur),
                                !.lastRefresh = 2,
                                !.searchQuery = past.q,
                                !.lastSearchPos = past.p,
                                !.selectedIndex = sel]
    IN  /\ config = [APIKey |-> KeyOfLen(FullKeyLen), AccountID |-> <<"1">>]
        /\ heap = prev \o cur
        /\ state = st
        /\ calls = << [NewCall("done", "go") EXCEPT
                          !.result = [Entities |-> Refs(<<>>, prev), Error |-> ""],
                          !.submitted = <<"raw">>],
                      [NewCall("done", "go") EXCEPT
                          !.result = [Entities |-> Refs(prev, cur), Error |-> ""],
                          !.submitted = <<"raw">>] >>
        /\ corr = << [NoCorr EXCEPT !.pc = "probe"], [NoCorr EXCEPT !.pc = "probe"] >>
        /\ rest = << NoRest, NoRest >>
        /\ queue = <<>>
        /\ list = [items |-> PaintRows(prev \o cur, [ents |-> Refs(prev, cur), s |-> 0]),
                   currentItem |-> IF names = <<>> THEN 0 ELSE sel]
        /\ statusText = StatusOf(FALSE, "", Len(names))
        /\ detailsText = IF names = <<>>
                         THEN ShowDetailsText([entities |-> Refs(<<>>, prev)], prev, sel0)
                         ELSE ShowDetailsText(st, prev \o cur, sel)
        /\ batchers = <<>>
        /\ ui = Idle
        /\ redraws = 0
        /\ fetchCalls = 2
        /\ keys = 0
        /\ sessions = 0
        /\ renders = << [total |-> Len(prev), selected |-> 0, batches |-> 1,
                         rows |-> Len(prev), selSet |-> 1, sel |-> 0] >>
                     \o IF names = <<>> THEN <<>>
                        ELSE << [total |-> Len(names), selected |-> sel0, batches |-> 1,
                                 rows |-> Len(names), selSet |-> 1, sel |-> sel] >>
        /\ crashed = FALSE
        /\ accessed = CycleAccesses \cup PastAccesses(past)

InitSearch ==
    \E n \in 0..MaxSearchN : \E names \in [1..n -> SearchNames] :
        \E past \in PastSearches : InitSearchFor(names, past)

\* the search keys and the steps of their handlers
NextSearch ==
    \/ \E q \in SearchQueries : KeySlash(q, MaxSearchKeys)
    \/ KeyN(MaxSearchKeys)
    \/ SearchSel
    \/ SearchShow

SpecSearch == InitSearch /\ [][NextSearch]_vars

\* The state the program is in when its first cycle has fetched with outcome
\* o, published, submitted its raw render and started its correlator, which
\* is waiting for the answer to its probe; the UI loop has not run yet.
InitCyclesFor(o) ==
    LET r == FetchEntitiesAfter(o)
    IN  /\ config = [APIKey |-> KeyOfLen(FullKeyLen), AccountID |-> <<"1">>]
        /\ heap = r.Entities
        /\ state = [InitState EXCEPT !.entities = Refs(<<>>, r.Entities),
                                     !.lastRefresh = 1,
                                     !.errMsg = r.Error]
        /\ calls = << [NewCall("done", "go") EXCEPT
                          !.result = [r EXCEPT !.Entities = Refs(<<>>, r.Entities)],
                          !.submitted = <<"raw">>,
                          !.failed = (o \in FetchFailures)] >>
        /\ corr = << [NoCorr EXCEPT !.pc = "probe"] >>
        /\ rest = << NoRest >>
        /\ queue = << UpdateClosure(1, "raw") >>
        /\ list = EmptyList
        /\ statusText = "loading"
        /\ detailsText = NoDetails
        /\ batchers = <<>>
        /\ ui = Idle
        /\ redraws = 0
        /\ fetchCalls = 1
        /\ keys = 0
        /\ sessions = 0
        /\ renders = <<>>
        /\ crashed = FALSE
        /\ accessed = GuardAccesses("refresh", FALSE) \cup PublishAccesses("refresh")

InitCycles == \E o \in {Transport, TwoHosts} : InitCyclesFor(o)

\* the outcomes tried where cycles overlap with the correlators of earlier
\* cycles: a failed, an empty and a non-empty fetch; a probe with an incident
\* and one without; a REST answer with a violation
CycleFetchOutcomes == {Transport, NoHosts, TwoHosts}
CycleProbeOutcomes == {IncidentG1, ErrorsBody}
CycleRestOutcomes == {ViolationDB}

\* refresh cycles that overlap with the correlators of earlier cycles
NextCycles ==
    \/ \E kind \in {"go", "timer"} : Trigger(kind, MaxCycleCalls)
    \/ \E c \in 1..Len(calls) : CallFetch(c)
    \/ \E c \in 1..Len(calls) : \E o \in CycleFetchOutcomes : NetReturn(c, o)
    \/ \E c \in 1..Len(calls) : Publish(c)
    \/ \E c \in 1..Len(calls) : QueueRender(c)
    \/ \E c \in 1..Len(calls) : SpawnCorrelator(c)
    \/ \E c \in 1..Len(calls) : \E o \in CycleProbeOutcomes : ProbeReturn(c, o)
    \/ \E c \in 1..Len(calls) : \E o \in CycleRestOutcomes : RestReturn(c, o)
    \/ \E c \in 1..Len(calls) : RestAwaited(c)
    \/ \E c \in 1..Len(calls) : RestTimeout(c)
    \/ \E c \in 1..Len(calls) : CorrQueueRender(c)

SpecCycles == InitCycles /\ [][NextCycles]_vars

\* refresh cycles and the renders they request, with correlators that are
\* still waiting for the backend
NextStatus ==
    \/ \E kind \in {"go", "timer"} : Trigger(kind, MaxStatusCalls)
    \/ \E c \in 1..Len(calls) : CallFetch(c)
    \/ \E c \in 1..Len(calls) : \E o \in CycleFetchOutcomes : NetReturn(c, o)
    \/ \E c \in 1..Len(calls) : Publish(c)
    \/ \E c \in 1..Len(calls) : QueueRender(c)
    \/ \E c \in 1..Len(calls) : SpawnCorrelator(c)
    \/ UIUpdate
    \/ \E i \in 1..Len(batchers) : BatcherStep(i)
    \/ UIBatch
    \/ UISetSel

SpecStatus == InitCycles /\ [][NextStatus]_vars

\* mappings as a probe answer can hold them
LeafTitled == JObj(<<KV("title", JStr(sX)), KV("entityGuid", JStr(sG1))>>)
LeafDescribed == JObj(<<KV("description", JStr(sD1)), KV("guid", JStr(sG2))>>)
LeafEmptyTitle == JObj(<<KV("title", JStr(<<>>)), KV("entityGuid", JStr(sG1))>>)
LeafNoGuid == JObj(<<KV("title", JStr(sX)), KV("description", JStr(sD1))>>)
LeafNoText == JObj(<<KV("entityGuid", JStr(sG1)), KV("guid", JStr(sG2))>>)
LeafNumbers == JObj(<<KV("title", JNum), KV("description", JStr(sD2)), KV("guid", JNum),
                      KV("entityGuid", JStr(sG1))>>)
LeafSiblings ==
    JObj(<<KV("title", JStr(sY)),
           KV("entities", JArr(<<JObj(<<KV("guid", JStr(sG2))>>), JStr(sG9), JNum,
                                 JObj(<<KV("entityGuid", JStr(sG1)), KV("name", JStr(sWEB))>>)>>)),
           KV("others", JArr(<<JObj(<<KV("guid", JStr(sG9))>>)>>))>>)
LeafNested ==
    JObj(<<KV("title", JStr(sX)), KV("guid", JStr(sG1)),
           KV("affectedEntities",
              JArr(<<JObj(<<KV("description", JStr(sD2)), KV("entityGuid", JStr(sG2))>>)>>))>>)
\* two candidates for the same entity, in the order of the sequence
LeafSequence ==
    JObj(<<KV("incidents",
              JArr(<<JObj(<<KV("title", JStr(sX)), KV("description", JStr(sD1)),
                            KV("entityGuid", JStr(sG1))>>),
                     JObj(<<KV("description", JStr(sD2)), KV("guid", JStr(sG1))>>)>>))>>)

Leaves == {LeafTitled, LeafDescribed, LeafEmptyTitle, LeafNoGuid, LeafNoText,
           LeafNumbers, LeafSiblings, LeafNested, LeafSequence}

\* a value nested in a mapping among unrelated siblings, or in a sequence
InObject(v) ==
    JObj(<<KV("meta", JObj(<<KV("count", JNum)>>)), KV("node", v), KV("kind", JStr(sWEB))>>)
InArray(v) == JArr(<<JNum, v, JObj(<<>>)>>)

RECURSIVE Nested(_, _)
\* v inside the wrappers named by how, the first outermost
Nested(v, how) ==
    IF how = <<>> THEN v
    ELSE IF Head(how) = "obj" THEN InObject(Nested(v, Tail(how)))
    ELSE InArray(Nested(v, Tail(how)))

\* the probe answers of the extraction specification
ExtractBodies ==
    {Body(Nested(v, how)) : v \in Leaves,
                            how \in UNION {[1..n -> {"obj", "arr"}] : n \in 0..MaxNest}}
    \cup {Body(JObj(<<KV("first", LeafTitled), KV("second", LeafDescribed)>>))}
    \cup {IncidentsBoth}

\* the object {title: X, entityGuid: g1} three levels deep among unrelated siblings
DeepExample == Body(Nested(LeafTitled, <<"obj", "obj", "obj">>))

\* the correlator of a cycle that fetched two hosts, from the answer to its
\* probe to its render request
NextExtract ==
    \/ \E c \in 1..Len(calls) : \E o \in ExtractBodies : ProbeReturn(c, o)
    \/ \E c \in 1..Len(calls) : \E o \in CycleRestOutcomes : RestReturn(c, o)
    \/ \E c \in 1..Len(calls) : RestAwaited(c)
    \/ \E c \in 1..Len(calls) : RestTimeout(c)
    \/ \E c \in 1..Len(calls) : CorrQueueRender(c)

SpecExtract == InitCyclesFor(TwoHosts) /\ [][NextExtract]_vars

\* the correlator of one cycle with the faults its stages can meet
NextFault ==
    \/ \E c \in 1..Len(calls) : \E o \in ExtractBodies : ProbeReturn(c, o)
    \/ \E c \in 1..Len(calls) : \E o \in CycleRestOutcomes : RestReturn(c, o)
    \/ \E c \in 1..Len(calls) : RestAwaited(c)
    \/ \E c \in 1..Len(calls) : RestTimeout(c)
    \/ \E c \in 1..Len(calls) : CorrQueueRender(c)
    \/ \E c \in 1..Len(calls) : ProbeFault(c)
    \/ \E c \in 1..Len(calls) : RestFault(c)

SpecFault == InitCyclesFor(TwoHosts) /\ [][NextFault]_vars

\* the display names of the hosts of the REST specification
RestNames == {sDB, sDBPROD, sWEB}

Violation(kvs) == JObj(<<KV("condition_name", JStr(sY)), KV("details", JStr(sD2))>> \o kvs)

\* one violation whose target is db-01
ViolationLower ==
    ViolationsBody(<<Violation(<<KV("targets", JArr(<<JObj(<<KV("name", JStr(sDB))>>)>>))>>)>>)

\* the answers of the violations API that are tried
RestBodies ==
    {ViolationsBody(<<Violation(<<KV("targets", JArr(<<JObj(<<KV("name", JStr(sDBPROD))>>)>>))>>)>>),
     ViolationLower,
     ViolationsBody(<<Violation(<<KV("targets", JArr(<<JObj(<<KV("name", JNum)>>), JStr(sDB)>>))>>)>>),
     ViolationsBody(<<Violation(<<KV("links", JObj(<<KV("entity", JStr(<<"W", "E">>))>>))>>)>>),
     ViolationsBody(<<Violation(<<KV("entity_name", JStr(<<"P", "R", "O", "D">>))>>)>>),
     ViolationsBody(<<Violation(<<KV("entity", JObj(<<KV("name", JStr(<<"0", "1">>))>>))>>)>>),
     ViolationsBody(<<Violation(<<>>)>>),
     ViolationsBody(<<Violation(<<KV("entity_name", JStr(<<>>))>>)>>),
     ViolationsBody(<<Violation(<<KV("name", JStr(sDB))>>), JStr(sDB),
                      Violation(<<KV("entity_name", JStr(sWEB))>>)>>),
     NoViolations, BadJSON, Transport}

\* The state the program is in when its first cycle has published hosts with
\* these names and its correlator, whose probe yielded no incident, has
\* started the REST fallback and waits for it.
InitRestFor(names) ==
    /\ config = [APIKey |-> KeyOfLen(FullKeyLen), AccountID |-> <<"1">>]
    /\ heap = NamedHosts(names)
    /\ state = [InitState EXCEPT !.entities = Refs(<<>>, NamedHosts(names)),
                                 !.lastRefresh = 1]
    /\ calls = << [NewCall("done", "go") EXCEPT
                      !.result = [Entities |-> Refs(<<>>, NamedHosts(names)), Error |-> ""],
                      !.submitted = <<"raw">>] >>
    /\ corr = << [NoCorr EXCEPT !.pc = "restwait", !.probe = ErrorsBody] >>
    /\ rest = << [NoRest EXCEPT !.pc = "net"] >>
    /\ queue = << UpdateClosure(1, "raw") >>
    /\ list = EmptyList
    /\ statusText = "loading"
    /\ detailsText = NoDetails
    /\ batchers = <<>>
    /\ ui = Idle
    /\ redraws = 0
    /\ fetchCalls = 1
    /\ keys = 0
    /\ sessions = 0
    /\ renders = <<>>
    /\ crashed = FALSE
    /\ accessed = GuardAccesses("refresh", FALSE) \cup PublishAccesses("refresh")

InitRest == \E n \in 1..MaxRestN : \E names \in [1..n -> RestNames] : InitRestFor(names)

\* the REST fallback from the answer to its request on
NextRest ==
    \/ \E c \in 1..Len(calls) : \E o \in RestBodies : RestReturn(c, o)
    \/ \E c \in 1..Len(calls) : RestAwaited(c)
    \/ \E c \in 1..Len(calls) : RestTimeout(c)
    \/ \E c \in 1..Len(calls) : CorrQueueRender(c)

SpecRest == InitRest /\ [][NextRest]_vars

\* one whole refresh cycle from the start of the program: the background
\* units of the pipeline and the UI loop that runs what they submit
InitSurface ==
    /\ config = [APIKey |-> KeyOfLen(FullKeyLen), AccountID |-> <<"1">>]
    /\ state = InitState
    /\ InitCommon

NextSurface ==
    \/ \E kind \in {"go", "timer"} : Trigger(kind, MaxSurfaceCalls)
    \/ \E c \in 1..Len(calls) : CallFetch(c)
    \/ \E c \in 1..Len(calls) : \E o \in CycleFetchOutcomes : NetReturn(c, o)
    \/ \E c \in 1..Len(calls) : Publish(c)
    \/ \E c \in 1..Len(calls) : QueueRender(c)
    \/ \E c \in 1..Len(calls) : SpawnCorrelator(c)
    \/ \E c \in 1..Len(calls) : \E o \in CycleProbeOutcomes : ProbeReturn(c, o)
    \/ \E c \in 1..Len(calls) : \E o \in CycleRestOutcomes : RestReturn(c, o)
    \/ \E c \in 1..Len(calls) : RestAwaited(c)
    \/ \E c \in 1..Len(calls) : RestTimeout(c)
    \/ \E c \in 1..Len(calls) : CorrQueueRender(c)
    \/ UIUpdate
    \/ \E i \in 1..Len(batchers) : BatcherStep(i)
    \/ UIBatch
    \/ UISetSel

SpecSurface == InitSurface /\ [][NextSurface]_vars

\* a cycle whose probe finds an incident for the host with guid g1, later
\* cycles that find no host any more, and the UI loop that paints what they
\* request
NextShown ==
    \/ \E kind \in {"go", "timer"} : Trigger(kind, MaxShownCalls)
    \/ \E c \in 1..Len(calls) : CallFetch(c)
    \/ \E c \in 1..Len(calls) : NetReturn(c, NoHosts)
    \/ \E c \in 1..Len(calls) : Publish(c)
    \/ \E c \in 1..Len(calls) : QueueRender(c)
    \/ \E c \in 1..Len(calls) : SpawnCorrelator(c)
    \/ \E c \in 1..Len(calls) : ProbeReturn(c, IncidentG1)
    \/ \E c \in 1..Len(calls) : CorrQueueRender(c)
    \/ UIUpdate
    \/ \E i \in 1..Len(batchers) : BatcherStep(i)
    \/ UIBatch
    \/ UISetSel

\* a turn of the UI loop (Application.Run takes the queued closures one by
\* one, main.go:250)
UILoopStep == UIUpdate \/ UIBatch \/ UISetSel

\* a step of a goroutine of the pipeline: refreshEntities after its guard
\* (main.go:318-345), fetchIncidents with its request answered
\* (newrelic.go:210-265) and the batch goroutine (main.go:389-429)
PipelineStep ==
    \/ \E c \in 1..Len(calls) :
          \/ CallFetch(c)
          \/ NetReturn(c, NoHosts)
          \/ Publish(c)
          \/ QueueRender(c)
          \/ SpawnCorrelator(c)
          \/ ProbeReturn(c, IncidentG1)
          \/ CorrQueueRender(c)
    \/ \E i \in 1..Len(batchers) : BatcherStep(i)

\* every goroutine that can run is scheduled, every request is answered and
\* the UI loop keeps taking closures; triggers come or not
SpecShown ==
    InitCyclesFor(TwoHosts) /\ [][NextShown]_vars
        /\ WF_vars(UILoopStep) /\ WF_vars(PipelineStep)

\* refresh cycles next to the correlator of an earlier cycle, which may or
\* may not get its answer
NextIdle ==
    \/ \E kind \in {"go", "timer"} : Trigger(kind, MaxIdleCalls)
    \/ \E c \in 1..Len(calls) : CallFetch(c)
    \/ \E c \in 1..Len(calls) : \E o \in CycleFetchOutcomes : NetReturn(c, o)
    \/ \E c \in 1..Len(calls) : Publish(c)
    \/ \E c \in 1..Len(calls) : QueueRender(c)
    \/ \E c \in 1..Len(calls) : SpawnCorrelator(c)
    \/ \E c \in 1..Len(calls) : \E o \in CycleProbeOutcomes : ProbeReturn(c, o)
    \/ \E c \in 1..Len(calls) : CorrQueueRender(c)

\* a step of refreshEntities from its guard to its publication: the call of
\* FetchEntities, its return (client.Do is bounded by its timeout of 10 s,
\* newrelic.go:99) and main.go:322-327
FetchStep ==
    \E c \in 1..Len(calls) :
        \/ CallFetch(c)
        \/ \E o \in CycleFetchOutcomes : NetReturn(c, o)
        \/ Publish(c)

\* the goroutine of an accepted call is scheduled until it has published;
\* nothing is assumed about the correlators
SpecIdle == InitCycles /\ [][NextIdle]_vars /\ WF_vars(FetchStep)

\* the queries typed at the prompt of the lock specification
LockQueries == {<<>>, <<"0", "1">>}

\* the units that use state.mu, with every Lock and Unlock a step of its
\* own; the correlators wait for the backend, and the goroutine a finished
\* session starts (main.go:164-172), which takes no lock and only submits
\* one more closure of updateListView, is not scheduled
NextLock ==
    \/ \E kind \in {"go", "timer"} : RefreshLock(kind, MaxLockCalls, MaxLockKeys)
    \/ \E c \in 1..Len(calls) : RefreshGuard(c)
    \/ \E c \in 1..Len(calls) : CallFetch(c)
    \/ \E c \in 1..Len(calls) : \E o \in {TwoHosts} : NetReturn(c, o)
    \/ \E c \in 1..Len(calls) : PublishLock(c)
    \/ \E c \in 1..Len(calls) : PublishUnlock(c)
    \/ \E c \in 1..Len(calls) : QueueRender(c)
    \/ \E c \in 1..Len(calls) : SpawnCorrelator(c)
    \/ UpdateLock
    \/ UpdateUnlock
    \/ \E i \in 1..Len(batchers) : BatcherStep(i)
    \/ BatchPaint
    \/ ShowLock
    \/ ShowUnlock
    \/ SetSelPaint
    \/ PromptLock(MaxLockKeys)
    \/ \E q \in LockQueries : PromptUnlock(q)
    \/ KeyNFind(MaxLockKeys)
    \/ FindLock
    \/ FindUnlock
    \/ SearchSelPaint
    \/ SessionLock(MaxLockKeys)
    \/ SessionUnlock
    \/ SessionEnd

\* The state the program is in when its first call of refreshEntities
\* (main.go:68) has sent its query and the user has meanwhile searched for
\* 01, with no entity published yet.
InitLock ==
    /\ config = [APIKey |-> KeyOfLen(FullKeyLen), AccountID |-> <<"1">>]
    /\ heap = <<>>
    /\ state = [InitState EXCEPT !.refreshInProgress = TRUE,
                                 !.searchQuery = <<"0", "1">>,
                                 !.lastSearchPos = -1]
    /\ calls = << [NewCall("net", "go") EXCEPT !.ticker = FALSE] >>
    /\ corr = << NoCorr >>
    /\ rest = << NoRest >>
    /\ queue = <<>>
    /\ list = EmptyList
    /\ statusText = "loading"
    /\ detailsText = NoDetails
    /\ batchers = <<>>
    /\ ui = Idle
    /\ redraws = 0
    /\ fetchCalls = 1
    /\ keys = 0
    /\ sessions = 0
    /\ renders = <<>>
    /\ crashed = FALSE
    /\ accessed = GuardAccesses("refresh", FALSE)
                  \cup PromptAccesses \cup {SearchGuardAccess}
                  \cup FindAccesses([InitState EXCEPT !.searchQuery = <<"0", "1">>,
                                                      !.lastSearchPos = -1], <<>>)

SpecLock == InitLock /\ [][NextLock]_vars

\* refresh cycles from the start of the program, while no entity has been
\* published yet, and the renders they request
NextEmpty ==
    \/ \E kind \in {"go", "timer"} : Trigger(kind, MaxEmptyCalls)
    \/ \E c \in 1..Len(calls) : CallFetch(c)
    \/ \E c \in 1..Len(calls) : \E o \in CycleFetchOutcomes : NetReturn(c, o)
    \/ \E c \in 1..Len(calls) : Publish(c)
    \/ \E c \in 1..Len(calls) : QueueRender(c)
    \/ \E c \in 1..Len(calls) : SpawnCorrelator(c)
    \/ UIUpdate
    \/ \E i \in 1..Len(batchers) : BatcherStep(i)
    \/ UIBatch
    \/ UISetSel

SpecEmpty == InitSurface /\ [][NextEmpty]_vars

----------------------------------------------------------------------------
(* properties *)

\* a cycle that was accepted and has not published
Unpublished(call) == call.pc \in {"accepted", "net", "fetched", "panic"}

\* the entity values a list of references denotes
Deref(h, ents) == [i \in 1..Len(ents) |-> h[ents[i]]]

\* C1: single-flight.  At most one accepted call is between its guard and
\* its publication, so at most one call of FetchEntities is in flight; the
\* calls of FetchEntities are the accepted calls that got past main.go:319;
\* and a call that finds refreshInProgress set returns having changed
\* nothing: no fetch, nothing queued, shared state as it was.
SingleFlightInv ==
    /\ Cardinality({c \in 1..Len(calls) : Unpublished(calls[c])}) <= 1
    /\ fetchCalls = Cardinality({c \in 1..Len(calls) :
                                    calls[c].pc \notin {"rejected", "accepted"}})

RejectedStep ==
    (Len(calls') > Len(calls) /\ state.refreshInProgress)
        => /\ calls'[Len(calls')].pc = "rejected"
           /\ state' = state
           /\ fetchCalls' = fetchCalls
           /\ queue' = queue
           /\ heap' = heap

SingleFlight == []SingleFlightInv /\ [][RejectedStep]_vars

\* a trigger was dropped while a fetch was in flight
SingleFlightWitness ==
    \E c, d \in 1..Len(calls) : calls[c].pc = "net" /\ calls[d].pc = "rejected"

\* C2: refreshInProgress is set exactly while an accepted cycle has not
\* published, and the step that replaces entities, errMsg or lastRefresh is
\* the step that clears it.
InProgressInv ==
    state.refreshInProgress <=> \E c \in 1..Len(calls) : Unpublished(calls[c])

PublishStep ==
    (\/ state'.entities # state.entities
     \/ state'.errMsg # state.errMsg
     \/ state'.lastRefresh # state.lastRefresh)
        => /\ state.refreshInProgress
           /\ ~state'.refreshInProgress
           /\ \E c \in 1..Len(calls) :
                 /\ calls[c].pc = "fetched"
                 /\ state'.entities = calls[c].result.Entities
                 /\ state'.errMsg = calls[c].result.Error
                 /\ state'.lastRefresh # state.lastRefresh

InProgressSpan == []InProgressInv /\ [][PublishStep]_vars

\* a later cycle has fetched entities and not published them: the set of
\* the cycle before is still the published one
InProgressSpanWitness ==
    \E c \in 1..Len(calls) :
        /\ calls[c].pc = "fetched"
        /\ calls[c].result.Entities # <<>>
        /\ state.refreshInProgress
        /\ state.lastRefresh > 0
        /\ state.entities # calls[c].result.Entities

\* C3: after a failure of the fetch the returned list carries an error and
\* the synthetic entities.
FailureGivesSynthetic ==
    \A c \in 1..Len(calls) :
        (calls[c].pc = "fetched" /\ calls[c].failed)
            => /\ calls[c].result.Error # ""
               /\ calls[c].result.Entities # <<>>
               /\ Deref(heap, calls[c].result.Entities) = TestEntities

\* C4: FetchEntities returns for every configuration: no call ends in a
\* panic and the process is not terminated.
FetchNeverAborts ==
    /\ ~crashed
    /\ \A c \in 1..Len(calls) : calls[c].pc # "panic"

\* C6: a cycle's correlator exists only after the cycle has published and
\* submitted its raw render; the cycle submits raw, then correlated; and in
\* the queue a cycle's raw render stands before its correlated one.
RawBeforeCorrelated ==
    /\ \A c \in 1..Len(calls) :
          /\ calls[c].submitted \in {<<>>, <<"raw">>, <<"raw", "corr">>}
          /\ corr[c].pc # "none"
                => /\ calls[c].submitted # <<>>
                   /\ calls[c].pc = "done"
                   /\ state.lastRefresh > 0
    /\ \A i, j \in 1..Len(queue) :
          (i < j /\ queue[i].kind = "update" /\ queue[j].kind = "update"
                 /\ queue[i].cycle = queue[j].cycle /\ queue[i].cycle > 0)
              => queue[i].phase = "raw" /\ queue[j].phase = "corr"

\* both render requests of one cycle have been submitted
RawBeforeCorrelatedWitness ==
    \E c \in 1..Len(calls) : calls[c].submitted = <<"raw", "corr">>

\* C7: the REST fallback is invoked only in a run whose probe yielded no
\* incident, hence no match; a run whose probe yields an incident does not
\* invoke it.
StageOrder ==
    \A c \in 1..Len(calls) :
        rest[c].pc # "none" => corr[c].incidents = 0 /\ corr[c].matched = 0

\* a run whose probe yielded an incident has returned
StageOrderWitness ==
    \E c \in 1..Len(calls) :
        corr[c].incidents > 0 /\ corr[c].pc \in {"ret", "done"} /\ rest[c].pc = "none"

\* nothing is left to run: no refresh or correlator under way, no closure
\* queued, no batch goroutine alive, the UI loop between handlers
Quiescent ==
    /\ \A c \in 1..Len(calls) :
          /\ calls[c].pc \in {"rejected", "done"}
          /\ corr[c].pc \in {"none", "done"}
    /\ queue = <<>>
    /\ batchers = <<>>
    /\ redraws = 0
    /\ ui.pc = "idle"

\* C8: once every queued paint batch has run, the list surface holds one
\* row per published entity, in order, as after a single render.
RenderIdempotent ==
    (Quiescent /\ Len(calls) > 0)
        => /\ Len(list.items) = Len(state.entities)
           /\ \A i \in 1..Len(list.items) :
                 /\ list.items[i].idx = i - 1
                 /\ list.items[i].name = heap[state.entities[i]].Name

\* C5 as stated: selectedIndex is a valid index into the published entities,
\* or -1 when there are none.
SelectedIndexValid ==
    IF state.entities = <<>>
    THEN state.selectedIndex = -1
    ELSE 0 <= state.selectedIndex /\ state.selectedIndex < Len(state.entities)

\* C5 as amended: selectedIndex is never negative, and a step that changes
\* it stores a valid index into the entities published at that moment; a
\* publication leaves it as it is, whatever the length of the new sequence.
SelectedNonNegative == state.selectedIndex >= 0

SelectionStep ==
    /\ state'.selectedIndex # state.selectedIndex
          => /\ state'.selectedIndex < Len(state'.entities)
             /\ state'.entities = state.entities
    /\ state'.entities # state.entities
          => state'.selectedIndex = state.selectedIndex

SelectedIndexGuarded == []SelectedNonNegative /\ [][SelectionStep]_vars

\* a refresh has published a sequence that the selection stored by
\* showDetails lies beyond
SelectedIndexStale ==
    /\ state.selectedIndex > 0
    /\ state.lastRefresh > 1
    /\ state.selectedIndex >= Len(state.entities)
\* a render has run all its batches
RenderDone(r) ==
    /\ ui.pc = "idle"
    /\ \A i \in 1..Len(batchers) : batchers[i].rid # r
    /\ \A i \in 1..Len(queue) : ~(queue[i].kind = "batch" /\ queue[i].cycle = r)

\* C9: a render of N > 0 entities runs ceil(N / batchSize) batches; the
\* rows on the list are at every moment the first rows of the snapshot, in
\* order, and a batch appends at most batchSize of them; the selection is
\* set once, by the final batch, to the recorded selectedIndex when that is
\* in [0, N-1] and to 0 otherwise, and the list ends with that row current.
RenderRows ==
    Len(renders) >= 2 =>
        /\ Len(list.items) <= Len(state.entities)
        /\ \A i \in 1..Len(list.items) :
              /\ list.items[i].idx = i - 1
              /\ list.items[i].name = heap[state.entities[i]].Name

RenderFinal ==
    \A r \in 2..Len(renders) :
        /\ renders[r].selSet <= 1
        /\ renders[r].selSet = 1 =>
              renders[r].batches = (renders[r].total + batchSize - 1) \div batchSize
        /\ RenderDone(r) =>
              /\ renders[r].total > 0
              /\ renders[r].batches = (renders[r].total + batchSize - 1) \div batchSize
              /\ renders[r].rows = renders[r].total
              /\ Len(list.items) = renders[r].total
              /\ renders[r].selSet = 1
              /\ renders[r].sel =
                    IF renders[r].selected >= 0 /\ renders[r].selected < renders[r].total
                    THEN renders[r].selected ELSE 0
              /\ list.currentItem = renders[r].sel
              /\ list.currentItem >= 0 /\ list.currentItem < renders[r].total

BatchStep ==
    Len(list'.items) > Len(list.items)
        => Len(list'.items) - Len(list.items) <= batchSize

RenderBatching == [](RenderRows /\ RenderFinal) /\ [][BatchStep]_vars

\* a render of 60 entities is done after 3 batches, and one whose recorded
\* selection was out of range has selected row 0
RenderBatchingWitness ==
    /\ Len(renders) = 2
    /\ RenderDone(2)
    /\ renders[2].total = 60
    /\ renders[2].batches = 3
    /\ Len(list.items) = 60
\* the indices whose lower-cased name contains the lower-cased query
Matches(names, q) ==
    {i \in 0..(Len(names) - 1) : Contains(ToLower(names[i + 1]), ToLower(q))}

\* how far index i is from the start (p + 1) mod n of the cyclic scan
ScanDistance(i, p, n) == (i - (p + 1)) % n

\* r and the cursor after are what a search with query q from cursor p
\* over names has to give
SearchResult(names, q, p, r, after) ==
    IF q = <<>> \/ names = <<>> \/ Matches(names, q) = {}
    THEN r = -1 /\ after = p
    ELSE /\ r \in Matches(names, q)
         /\ r >= 0 /\ r < Len(names)
         /\ \A m \in Matches(names, q) :
               ScanDistance(r, p, Len(names)) <= ScanDistance(m, p, Len(names))
         /\ after = r

\* C10: a search returns the first index in cyclic order from
\* (lastSearchPos + 1) mod n whose lower-cased name contains the lower-cased
\* query and stores it in lastSearchPos; it returns -1 and leaves
\* lastSearchPos alone when nothing matches, the set is empty or the query is
\* empty; a returned index is in [0, n-1] also from a stale cursor; over
\* [alpha, beta, alpha2] the query alpha gives 0 from cursor -1, 2 from
\* cursor 0 and 0 again from cursor 2.
SearchStep ==
    keys' # keys =>
        /\ ui'.key = "n" =>
              /\ state'.searchQuery = state.searchQuery
              /\ SearchResult(NamesOf(state, heap), state.searchQuery,
                              state.lastSearchPos, ui'.found, state'.lastSearchPos)
        /\ ui'.key = "/" =>
              SearchResult(NamesOf(state, heap), state'.searchQuery,
                           -1, ui'.found, state'.lastSearchPos)
        /\ ui'.key \in {"n", "/"}
        /\ state'.entities = state.entities

SearchChain ==
    (keys' # keys /\ NamesOf(state, heap) = <<sAlpha, sBeta, sAlpha2>>
                  /\ state'.searchQuery = sAlpha) =>
        /\ ui'.key = "/" => ui'.found = 0
        /\ (ui'.key = "n" /\ state.lastSearchPos = 0) => ui'.found = 2
        /\ (ui'.key = "n" /\ state.lastSearchPos = 2) => ui'.found = 0

SearchCyclic == [][SearchStep /\ SearchChain]_vars

\* the third search key of a behaviour, an n over [alpha, beta, alpha2] with
\* query alpha, has wrapped around to index 0
SearchCyclicWitness ==
    /\ NamesOf(state, heap) = <<sAlpha, sBeta, sAlpha2>>
    /\ state.searchQuery = sAlpha
    /\ keys = 3
    /\ ui.key = "n"
    /\ ui.found = 0
    /\ state.lastSearchPos = 0
\* two accesses to the same field that can run at the same time without the
\* lock ordering them: a is made without the lock, one of the two is a
\* write, and they are made by different goroutines
Conflict(a, b) ==
    /\ ~a.locked
    /\ a.field = b.field
    /\ a.write \/ b.write
    /\ a.unit # b.unit \/ a.unit \notin SingleUnits

Objects(refs) == {refs[i] : i \in 1..Len(refs)}

\* the goroutines of cycle c (fetchIncidents, fetchViolationsREST) take this step
CorrelatorSteps(c) == corr'[c] # corr[c] \/ rest'[c] # rest[c]

\* C12 as stated: no step changes a field of an entity that is in the
\* published entity sequence.
PublishedImmutable ==
    [][\A r \in Objects(state.entities) : heap'[r] = heap[r]]_vars

\* C13: the entity sequences of two cycles share no object, a correlator
\* writes only to objects of its own cycle's fetch, and never to an object of
\* the published sequence when that was published by another cycle.
CyclesDisjoint ==
    \A c1, c2 \in 1..Len(calls) :
        c1 # c2 => Objects(calls[c1].result.Entities)
                       \cap Objects(calls[c2].result.Entities) = {}

OwnCycleWrites ==
    \A r \in DOMAIN heap :
        heap'[r] # heap[r] =>
            \E c \in 1..Len(calls) :
                /\ CorrelatorSteps(c)
                /\ r \in Objects(calls[c].result.Entities)
                /\ \A c2 \in 1..Len(calls) :
                      (c2 # c /\ state.entities = calls[c2].result.Entities
                              /\ calls[c2].pc \in {"published", "queued", "done"})
                          => r \notin Objects(state.entities)

NoCrossCycle == []CyclesDisjoint /\ [][OwnCycleWrites]_vars

\* the second cycle's entities are the published ones and untouched while
\* the correlator of the first cycle has marked an entity of the first
NoCrossCycleWitness ==
    /\ Len(calls) >= 2
    /\ calls[2].result.Entities # <<>>
    /\ state.entities = calls[2].result.Entities
    /\ state.lastRefresh = 2
    /\ corr[2].pc = "probe"
    /\ corr[1].pc \in {"ret", "done"}
    /\ \E r \in Objects(calls[1].result.Entities) : heap[r].AlertType \in {sX, sY}
    /\ \A r \in Objects(calls[2].result.Entities) : heap[r].AlertType \notin {sX, sY}

\* C19: a cycle that has returned has a correlator exactly when its set is
\* not empty; it has requested its raw render, and its correlated render
\* exactly when the correlator has returned; the correlator writes to the
\* sequence its cycle fetched, whatever is published by then.
CorrelatorPerCycle ==
    \A c \in 1..Len(calls) :
        /\ corr[c].pc # "none" => calls[c].pc = "done"
        /\ calls[c].pc = "done" =>
              /\ corr[c].pc # "none" <=> Len(calls[c].result.Entities) > 0
              /\ calls[c].submitted =
                    IF corr[c].pc = "done" THEN <<"raw", "corr">> ELSE <<"raw">>
        /\ calls[c].pc = "rejected" => calls[c].submitted = <<>>

CapturedSequence ==
    \A c \in 1..Len(calls) :
        (corr'[c] # corr[c] /\ corr[c].pc = "probe") =>
            \A r \in DOMAIN heap :
                heap'[r] # heap[r] => r \in Objects(calls[c].result.Entities)

CorrelatorRuns == []CorrelatorPerCycle /\ [][CapturedSequence]_vars

\* a cycle with entities has requested both renders after another cycle
\* replaced the published set, and a cycle with an empty set only one
CorrelatorRunsWitness ==
    /\ Len(calls) >= 2
    /\ calls[1].submitted = <<"raw", "corr">>
    /\ corr[1].matched > 0
    /\ calls[2].pc = "done"
    /\ calls[2].result.Entities = <<>>
    /\ calls[2].submitted = <<"raw">>
    /\ state.entities = <<>>

\* C20 as stated: a cycle whose fetch failed and fell back to the test
\* entities has no correlator.
FailedFetchSkipsCorrelator ==
    \A c \in 1..Len(calls) : calls[c].failed => corr[c].pc = "none"
\* the UI loop runs a closure of updateListView in this step
RenderStarts == queue # <<>> /\ Head(queue).kind = "update" /\ queue' = Tail(queue)

\* C15 as stated: the status line of a render is the fetching text when the
\* snapshot is in progress, else the error text when it has an error, else
\* the last-updated text.
StatusPriority ==
    [][RenderStarts =>
          statusText' = IF state.refreshInProgress THEN "fetching"
                        ELSE IF state.errMsg # "" THEN "error"
                        ELSE "updated"]_vars

\* C15, amended: fetching when in progress, whatever the error and the
\* count; else the error text; else the no-entities text when the snapshot
\* has no entity; else the last-updated text.  The status line changes in
\* no other step.
StatusPriorityCounted ==
    [][/\ RenderStarts =>
             statusText' = IF state.refreshInProgress THEN "fetching"
                           ELSE IF state.errMsg # "" THEN "error"
                           ELSE IF Len(state.entities) = 0 THEN "noentities"
                           ELSE "updated"
       /\ statusText' # statusText => RenderStarts]_vars

\* a render has shown the no-entities text for an empty set without error
StatusPriorityWitness ==
    /\ statusText = "noentities"
    /\ state.entities = <<>>
    /\ state.errMsg = ""
    /\ ~state.refreshInProgress
RECURSIVE Descendants(_)
\* a value and every value inside it, at any depth
Descendants(node) ==
    {node} \cup UNION {Descendants(node.kids[i].v) : i \in 1..Len(node.kids)}

\* the string under key, or the empty string
TextOf(m, key) == IF HasStr(m, key) THEN Field(m, key).s ELSE <<>>

\* the entityGuid and guid of a mapping
OwnIds(m) == {Field(m, k).s : k \in {k \in {"entityGuid", "guid"} : HasStr(m, k)}}

\* the identifiers of a mapping: its own and those of the elements of its
\* sequences under the conventional keys
Identifiers(m) ==
    OwnIds(m)
    \cup UNION {UNION {OwnIds(Field(m, GuidKeys[k]).kids[i].v) :
                          i \in 1..Len(Field(m, GuidKeys[k]).kids)} :
                   k \in {k \in 1..Len(GuidKeys) : HasArr(m, GuidKeys[k])}}

IsCandidate(m) ==
    /\ m.t = "obj"
    /\ TextOf(m, "title") # <<>> \/ TextOf(m, "description") # <<>>
    /\ Identifiers(m) # {}

\* C16: what extractIncidentsGeneric returns for an answer is, in some
\* order, one candidate {title, description, identifiers} for every mapping
\* at any depth with a non-empty title or description and an identifier,
\* and nothing else; the mapping {title: X, entityGuid: g1} three levels
\* deep gives a candidate with title X and identifier g1.
ExtractionExact ==
    \A c \in 1..Len(calls) :
        (corr[c].probe.kind = "body" /\ corr[c].probe.valid) =>
            LET cands == {m \in Descendants(corr[c].probe.json) : IsCandidate(m)}
                found == corr[c].found
            IN  /\ {[title |-> found[i].Title, description |-> found[i].Description,
                     ids |-> {found[i].GUIDs[g] : g \in 1..Len(found[i].GUIDs)}] :
                        i \in 1..Len(found)}
                   = {[title |-> TextOf(m, "title"), description |-> TextOf(m, "description"),
                       ids |-> Identifiers(m)] : m \in cands}
                /\ Len(found) = Cardinality(cands)
                /\ corr[c].probe = DeepExample =>
                      \E i \in 1..Len(found) :
                          found[i].Title = sX /\ found[i].GUIDs = <<sG1>>

\* the answer with the mapping three levels deep has been searched
ExtractionExactWitness ==
    \E c \in 1..Len(calls) :
        /\ corr[c].probe = DeepExample
        /\ corr[c].pc \in {"ret", "done"}
        /\ Len(corr[c].found) = 1

\* the target names of a violation
TargetNameSet(v) ==
    (IF HasArr(v, "targets")
     THEN {Field(e, "name").s : e \in {e \in {Field(v, "targets").kids[i].v :
                                                i \in 1..Len(Field(v, "targets").kids)} :
                                       HasStr(e, "name")}}
     ELSE {})
    \cup (IF HasObj(v, "links") /\ HasStr(Field(v, "links"), "entity")
          THEN {Field(Field(v, "links"), "entity").s} ELSE {})
    \cup (IF HasStr(v, "entity_name") THEN {Field(v, "entity_name").s} ELSE {})
    \cup (IF HasObj(v, "entity") /\ HasStr(Field(v, "entity"), "name")
          THEN {Field(Field(v, "entity"), "name").s} ELSE {})

\* one name is a substring of the other, both case-folded
EitherContains(a, b) ==
    Contains(ToLower(a), ToLower(b)) \/ Contains(ToLower(b), ToLower(a))

\* the violations of an answer of the violations API
ViolationsOf(o) ==
    IF o.kind = "body" /\ o.valid /\ HasArr(o.json, "violations")
    THEN {Field(o.json, "violations").kids[i].v :
             i \in 1..Len(Field(o.json, "violations").kids)}
    ELSE {}

\* C17: after the REST fallback an entity is alerting exactly when a
\* violation has a target name that contains the entity name or is
\* contained in it, both case-folded; a violation without a target name
\* marks no entity.
RestMarking ==
    \A c \in 1..Len(calls) :
        rest[c].pc = "done" =>
            \A r \in Objects(calls[c].result.Entities) :
                heap[r].HasAlert <=>
                    \E v \in ViolationsOf(rest[c].answer) :
                        \E tn \in TargetNameSet(v) : EitherContains(heap[r].Name, tn)

\* db-01 is marked by the target DB-01-PROD, or DB-01-PROD by the target db-01
RestMarkingWitness ==
    \E c \in 1..Len(calls) :
        /\ rest[c].pc = "done"
        /\ rest[c].answer = ViolationLower
        /\ \E r \in Objects(calls[c].result.Entities) :
              heap[r].Name = sDBPROD /\ heap[r].HasAlert
        /\ \E r \in Objects(calls[c].result.Entities) :
              heap[r].Name = sWEB /\ ~heap[r].HasAlert

\* C18 as stated: after a run in which candidates matched an entity, the
\* entity is alerting and its alert title and alert detail are those of the
\* last candidate that matched it.
LastWriteWins ==
    \A c \in 1..Len(calls) :
        (corr[c].pc \in {"ret", "done"} /\ corr[c].found # <<>>) =>
            \A r \in Objects(calls[c].result.Entities) :
                LET found == corr[c].found
                    hits == {i \in 1..Len(found) :
                                \E g \in 1..Len(found[i].GUIDs) :
                                    found[i].GUIDs[g] = heap[r].GUID}
                IN  hits # {} =>
                        LET last == CHOOSE i \in hits : \A j \in hits : j <= i
                        IN  /\ heap[r].HasAlert
                            /\ heap[r].AlertType = found[last].Title
                            /\ heap[r].AlertMessage = found[last].Description
\* the step is a turn of the UI loop: it takes the closure at the head of
\* the queue, or goes on with the closure or the key it is handling
UITurn ==
    \/ ui.pc = "idle" /\ queue # <<>> /\ queue' = Tail(queue)
    \/ ui.pc # "idle" /\ ui' # ui
    \/ keys' # keys

\* the step is one of a refresh goroutine, of the timer goroutine, of a
\* correlator or of a batch-scheduling goroutine
BackgroundStep ==
    \/ calls' # calls
    \/ corr' # corr
    \/ rest' # rest
    \/ batchers' # batchers /\ renders' = renders

\* the closures the step submits: what a cycle records as submitted and the
\* batch of a batch-scheduling goroutine
SubmittedBy ==
    {UpdateClosure(c, calls'[c].submitted[Len(calls'[c].submitted)]) :
        c \in {c \in DOMAIN calls : Len(calls'[c].submitted) > Len(calls[c].submitted)}}
    \cup {BatchClosure(batchers[i].rid, batchers[i], batchers[i].start) :
             i \in {i \in DOMAIN batchers :
                       /\ renders' = renders
                       /\ batchers' # batchers
                       /\ \A j \in 1..(i - 1) : j \in DOMAIN batchers' /\ batchers'[j] = batchers[j]
                       /\ i \in DOMAIN batchers' => batchers'[i] # batchers[i]}}

\* C14: every change of the list surface (rows, selection, status text,
\* details) is made by a turn of the UI loop and by no step of a background
\* unit; a background unit changes no surface and at most appends to the
\* queue of QueueUpdateDraw, and every closure it submits is in that queue.
SurfaceOnUILoop ==
    [][ /\ (list' # list \/ statusText' # statusText \/ detailsText' # detailsText) =>
              UITurn /\ calls' = calls /\ corr' = corr /\ rest' = rest
        /\ BackgroundStep =>
              /\ list' = list /\ statusText' = statusText /\ detailsText' = detailsText
              /\ ui' = ui
              /\ Len(calls') = Len(calls) =>
                    \/ queue' = queue /\ SubmittedBy = {}
                    \/ \E f \in SubmittedBy : queue' = Append(queue, f)
      ]_vars

\* the render a correlator submitted has been painted by the UI loop
SurfaceOnUILoopWitness ==
    /\ \E c \in 1..Len(calls) : calls[c].submitted = <<"raw", "corr">>
    /\ queue = <<>>
    /\ Len(renders) >= 2
    /\ renders[Len(renders)].selSet = 1
    /\ list.items # <<>>
    /\ statusText # "loading"
\* C21 as stated: once fetchIncidents has returned through the timeout
\* branch of its wait for the REST fallback, the abandoned fallback changes
\* no alert field of any entity of that cycle.
AbandonedFallbackSilent ==
    [][ \A c \in DOMAIN corr :
            corr[c].timedOut =>
                \A r \in Objects(calls[c].result.Entities) :
                    /\ heap'[r].HasAlert = heap[r].HasAlert
                    /\ heap'[r].AlertType = heap[r].AlertType
                    /\ heap'[r].AlertMessage = heap[r].AlertMessage
      ]_vars
EmptyShowsPlaceholder ==
    [][(RenderStarts /\ state.entities = <<>>) =>
          /\ statusText' = "noentities"
          /\ list'.items = <<>>
          /\ batchers' = batchers /\ renders' = renders]_vars

\* C23, amended: a render of a snapshot without entities appends no row and
\* schedules no batch; its status line is the fetching text when the
\* snapshot is in progress, else the error text when it has an error, and
\* the no-entities text only otherwise.
EmptyPaintsNothing ==
    [][(RenderStarts /\ state.entities = <<>>) =>
          /\ statusText' = IF state.refreshInProgress THEN "fetching"
                           ELSE IF state.errMsg # "" THEN "error"
                           ELSE "noentities"
          /\ list'.items = <<>>
          /\ batchers' = batchers /\ renders' = renders]_vars

\* a render of an empty snapshot in progress has shown the fetching text,
\* and no render has had an entity to paint
EmptyPaintsNothingWitness ==
    /\ statusText = "fetching"
    /\ state.entities = <<>>
    /\ state.refreshInProgress
    /\ renders = <<>>
    /\ batchers = <<>>
    /\ list.items = <<>>
    /\ \E c \in 1..Len(calls) : calls[c].pc = "done" /\ calls[c].result.Entities = <<>>
\* the positions of the UI loop inside a lock section
UISections == {"snapshot", "show", "prompt", "find", "sesslock"}

\* the positions of a call of refreshEntities inside a lock section
RefreshSections == {"guard", "publishing"}

\* state.mu is held exactly by the unit that is inside a lock section
HeldInSections ==
    /\ state.mu = MuUI <=> ui.pc \in UISections
    /\ \A c \in 1..Len(calls) : state.mu = c <=> calls[c].pc \in RefreshSections
    /\ state.mu \in {MuFree, MuUI} \cup (1..Len(calls))

\* no unit holds state.mu in a network call, while a session runs, while it
\* submits or paints a batch or sleeps between batches, or after its return
NotHeldOutside ==
    /\ \A c \in 1..Len(calls) :
          calls[c].pc \in {"accepted", "net", "fetched", "published", "queued",
                           "done", "rejected"} => state.mu # c
    /\ ui.pc \in {"idle", "session", "paintsel", "showlock", "findwait", "srch1"} =>
          state.mu # MuUI
    /\ (\E c \in 1..Len(calls) : corr[c].pc \in {"probe", "restwait"}) =>
          state.mu \in {MuFree, MuUI} \cup {c \in 1..Len(calls) : calls[c].pc \in RefreshSections}

\* the step a unit makes with the lock held is the rest of its section and
\* ends with the lock released; it changes no surface and submits nothing
SectionStep ==
    /\ (state.mu = MuUI /\ ui' # ui) => state'.mu = MuFree
    /\ \A c \in 1..Len(calls) :
          (state.mu = c /\ calls'[c] # calls[c]) =>
              /\ state'.mu = MuFree
              /\ queue' = queue /\ list' = list /\ batchers' = batchers
    /\ state.mu # MuFree => state'.mu \in {state.mu, MuFree}

\* C24: state.mu is held only inside the lock sections, whose one step is
\* the copy or assignment of the section, and never in a network call, in a
\* session, while a batch is submitted or painted or its goroutine sleeps;
\* every path of a section releases the lock.
LockHeldBriefly == [](HeldInSections /\ NotHeldOutside) /\ [][SectionStep]_vars

\* the fetch of the second cycle is in flight while the UI loop is inside
\* the lock section of updateListView, after the sections of showDetails
\* and of the guard were left
LockHeldBrieflyWitness ==
    /\ \E c \in 1..Len(calls) : calls[c].pc = "net"
    /\ ui.pc = "snapshot"
    /\ state.mu = MuUI
    /\ detailsText.shown
\* a call of refreshEntities is accepted in this step
Accepted ==
    /\ Len(calls') = Len(calls) + 1
    /\ calls'[Len(calls')].pc = "accepted"

\* C25: a cycle that was accepted publishes and clears refreshInProgress,
\* whatever its correlator and those of earlier cycles do; and a trigger
\* that finds refreshInProgress clear is accepted, also while the correlator
\* of an earlier cycle is still running.
CycleReturnsToIdle ==
    /\ state.refreshInProgress ~> ~state.refreshInProgress
    /\ [][Len(calls') = Len(calls) + 1 =>
             (Accepted <=> ~state.refreshInProgress)]_vars

\* the second cycle has been accepted and has published while the
\* correlator of the first cycle still waits for the answer to its probe
CycleReturnsToIdleWitness ==
    /\ Len(calls) >= 2
    /\ corr[1].pc = "probe"
    /\ calls[2].pc \in {"published", "queued", "done"}
    /\ ~state.refreshInProgress
\* C26: at every moment the rows of the list surface are a prefix of one
\* render snapshot, so row i is bound to entity index i and no entity has
\* two rows; and once every queued paint batch has run the rows are the
\* published entities, one row each, in published order.
SurfaceIsPrefix ==
    /\ \A i \in 1..Len(list.items) : list.items[i].idx = i - 1
    /\ \A i, j \in 1..Len(list.items) :
           list.items[i].name = list.items[j].name => i = j
    /\ (Quiescent /\ Len(calls) > 0) =>
           list.items = [i \in 1..Len(state.entities) |->
                            [name |-> heap[state.entities[i]].Name,
                             alert |-> list.items[i].alert,
                             idx |-> i - 1]]
\* the entities of cycle c that have their alert
Alerted(c) == {r \in Objects(calls[c].result.Entities) : heap[r].HasAlert}

\* the correlator of cycle c has set an alert and is about to request its
\* render (newrelic.go:255-259, main.go:341)
AlertSet(c) == c <= Len(calls) /\ corr[c].pc = "ret" /\ Alerted(c) # {}

\* the closure that the UI loop runs next paints the row of the entity from
\* a snapshot that holds it, and the entity has its alert: the row is
\* painted as an alert row in the next turn of the loop
PaintDue(r) ==
    /\ queue # <<>>
    /\ Head(queue).kind = "batch"
    /\ r \in Objects(Head(queue).ents)
    /\ heap[r].HasAlert

\* the alerts of cycle c are about to be painted
AlertsDue(c) ==
    c <= Len(calls) /\ Alerted(c) # {} /\ \A r \in Alerted(c) : PaintDue(r)

\* the published entity set is no longer the one of cycle c
Superseded(c) == c <= Len(calls) /\ state.entities # calls[c].result.Entities

Uncorrelated(h) ==
    [o \in DOMAIN h |-> [h[o] EXCEPT !.HasAlert = FALSE,
                                     !.AlertType = <<>>,
                                     !.AlertMessage = <<>>]]

\* C28: for the answer a correlator got and the entities it was given, every
\* order in which the walker can visit the children of the mappings ends
\* with the same HasAlert, AlertType and AlertMessage on every entity as the
\* run that took place.
CorrelationDeterministic ==
    \A c \in 1..Len(calls) :
        (corr[c].pc \in {"ret", "done"} /\ corr[c].found # <<>>) =>
            \A other \in extractIncidentsGeneric(corr[c].probe) :
                LET ents == calls[c].result.Entities
                    h == MatchIncidents(Uncorrelated(heap), ents, other, 1)
                IN  \A r \in Objects(ents) :
                        /\ h[r].HasAlert = heap[r].HasAlert
                        /\ h[r].AlertType = heap[r].AlertType
                        /\ h[r].AlertMessage = heap[r].AlertMessage
====
